---- MODULE Spec2Model ----
(***************************************************************************)
(* MemoryPersistence / IdentifiableMemoryPersistence of                    *)
(* pip-services3-data-node as a state machine.                             *)
(*                                                                         *)
(* Records are JavaScript objects and lists are JavaScript arrays: both    *)
(* are reached through references, so the model keeps a heap of objects    *)
(* (objs) and a heap of arrays (arrs).  this._items is a reference to an   *)
(* array of references to objects.  What a callback receives is a          *)
(* reference too, and the caller may write through it.                     *)
(***************************************************************************)
EXTENDS Integers, Sequences, FiniteSets, TLC

VARIABLES
    objs,         \* heap of record objects: reference -> record
    arrs,         \* heap of arrays: reference -> sequence of object references
    items,        \* this._items: a reference into arrs
    maxPageSize,  \* this._maxPageSize
    hasSaver,     \* this._saver != null
    nextId,       \* how many ids IdGenerator.nextLong() has handed out
    pending,      \* Saver requests that have not reported their outcome yet
    store,        \* what the Saver wrote last (record values, in order)
    res,          \* what the caller's callback received last
    step,         \* the step taken last: the handler that ran, with its inputs
    inp,          \* the caller's own input object of the last create/set/update
    opened,       \* this._opened
    hasLoader,    \* this._loader != null
    loading,      \* Loader requests that have not reported their outcome yet
    path,         \* this._path of the JsonFilePersister
    file,         \* what the file system holds at the path
    loaded,       \* the array the Loader handed over last and still holds
    caller        \* whether the caller passes callbacks, and how many calls
                  \* it has in flight at most

vars == <<objs, arrs, items, maxPageSize, hasSaver, nextId, pending, store,
          res, step, inp, opened, hasLoader, loading, path, file, loaded,
          caller>>

\* the Loader and the open flag of the persistence
lifecycle == <<opened, hasLoader, loading>>
\* the JsonFilePersister and its file
disk == <<path, file>>

----------------------------------------------------------------------------
(* Bounds of the model *)

\* create/set are not issued once this._items holds this many records
MaxItems == 3
\* number of ids the generator hands out in one behaviour
MaxGen == 2
\* Saver requests in flight at the same time
MaxPending == 1
\* Saver requests in flight at the same time where saves overlap
MaxOverlap == 2
\* Loader requests in flight at the same time
MaxLoading == 1
\* records a caller creates where outside parties change the lists they hold
MaxOwned == 2
\* largest max_page_size / skip / take a caller configures or asks for
MaxPage == 3

\* protected _maxPageSize: number = 100
DefaultMaxPageSize == 100

----------------------------------------------------------------------------
(* Values *)

Null == "null"
Undef == "undefined"

Fields == {"id", "key", "content"}

\* ids IdGenerator.nextLong() returns, in the order it returns them
GenIds == <<"g1", "g2", "g3", "g4">>
\* the ids callers ask for
IdArgs == {"a", "g1", Null}

Rec(id, key, content) == [id |-> id, key |-> key, content |-> content]

\* the object literals callers pass to create / set / update
InputRecords ==
    { Rec(Null,  "k1", "x"),
      Rec(Undef, "k2", "xy"),
      Rec("a",   "k2", "xy"),
      Rec("a",   "k1", Undef) }

\* the AnyValueMap contents callers pass to updatePartially
FieldMaps ==
    { [content |-> "xyz"],
      [id |-> "a"] }

\* x == null in JavaScript: true of null and of undefined
IsNullish(v) == v \in {Null, Undef}

\* ids of two primitive types: the string '1' and the number 1
One == "1"
NumberOne == "1 (number)"

\* x == y in JavaScript on ids: null and undefined are equal to each other,
\* a number and a string are compared as numbers
LooseEq(x, y) ==
    \/ x = y
    \/ IsNullish(x) /\ IsNullish(y)
    \/ {x, y} = {One, NumberOne}

NoErr == "none"
SaveError == "SaveError"
LoadError == "LoadError"
\* callback(...) where callback is undefined
TypeError == "TypeError: callback is not a function"

----------------------------------------------------------------------------
(* The heap *)

Min(S) == CHOOSE m \in S : \A n \in S : m <= n

\* a reference the heap h does not use
NewRef(h) == Cardinality(DOMAIN h) + 1

Range(s) == {s[i] : i \in DOMAIN s}

\* the record values of array a of heap ah, read through object heap oh
Values(oh, ah, a) == [i \in 1..Len(ah[a]) |-> oh[ah[a][i]]]

\* the Working Set: the records of this._items, by value, in order
WorkingSet == Values(objs, arrs, items)

\* What the program and its caller hold at one moment: the two heaps and
\* every reference into them.
World(oh, ah, it, rs, pd, in) ==
    [objs |-> oh, arrs |-> ah, items |-> it, res |-> rs, pending |-> pd,
     inp |-> in, loaded |-> loaded]

RECURSIVE Flatten(_)
Flatten(ss) == IF ss = <<>> THEN <<>> ELSE Head(ss) \o Flatten(Tail(ss))

\* s without its zeros and without the later occurrences of an element
RECURSIVE Firsts(_, _)
Firsts(s, seen) ==
    IF s = <<>> THEN <<>>
    ELSE IF Head(s) = 0 \/ Head(s) \in seen THEN Firsts(Tail(s), seen)
    ELSE <<Head(s)>> \o Firsts(Tail(s), seen \cup {Head(s)})

PosIn(s, x) == IF x = 0 THEN 0 ELSE CHOOSE i \in 1..Len(s) : s[i] = x

\* The JavaScript runtime frees what nobody references, and an address
\* means nothing: the world is kept with the live arrays and objects only,
\* numbered in the order in which they are met from this._items, the list
\* the caller holds, the lists the Saver holds, the list the Loader holds,
\* and then the single objects the caller holds.
Collect(w) ==
    LET as == Firsts(<<w.items, w.res.list>>
                       \o [i \in 1..Len(w.pending) |-> w.pending[i].list]
                       \o <<w.loaded>>, {})
        os == Firsts(Flatten([k \in 1..Len(as) |-> w.arrs[as[k]]])
                       \o <<w.res.item>>
                       \o [i \in 1..Len(w.pending) |-> w.pending[i].item]
                       \o <<w.inp>>, {})
    IN  [objs    |-> [k \in 1..Len(os) |-> w.objs[os[k]]],
         arrs    |-> [k \in 1..Len(as) |->
                        [j \in 1..Len(w.arrs[as[k]]) |->
                            PosIn(os, w.arrs[as[k]][j])]],
         items   |-> PosIn(as, w.items),
         res     |-> [w.res EXCEPT !.item = PosIn(os, @), !.list = PosIn(as, @)],
         pending |-> [i \in 1..Len(w.pending) |->
                        [w.pending[i] EXCEPT !.item = PosIn(os, @),
                                             !.list = PosIn(as, @)]],
         inp     |-> PosIn(os, w.inp),
         loaded  |-> PosIn(as, w.loaded)]

\* the next state holds the world w
Becomes(w) ==
    \E c \in {Collect(w)} :
        /\ objs' = c.objs
        /\ arrs' = c.arrs
        /\ items' = c.items
        /\ res' = c.res
        /\ pending' = c.pending
        /\ inp' = c.inp
        /\ loaded' = c.loaded

----------------------------------------------------------------------------
(* Results *)

Result(op, err, item, list, total, count) ==
    [op |-> op, err |-> err, item |-> item, list |-> list,
     total |-> total, count |-> count]

NoResult == Result("none", NoErr, 0, 0, {}, {})

Step(op, arg, nsave, ncb) ==
    [op |-> op, arg |-> arg, nsave |-> nsave, ncb |-> ncb]

\* a caller that passes a callback to every call and has at most n calls
\* in flight, and one that passes no callbacks
WithCallbacks(n) == [callback |-> TRUE, calls |-> n]
WithoutCallbacks(n) == [callback |-> FALSE, calls |-> n]

\* if (callback) callback(...): what the caller has received afterwards,
\* and how often its callback ran
IfCallback(rs) == IF caller.callback THEN rs ELSE NoResult
Ncb == IF caller.callback THEN 1 ELSE 0

\* a call that returns before its callback has run: the caller has what it
\* received before, and a caller without callbacks has seen the call return
NotYetCalled == IF caller.callback THEN res ELSE NoResult

\* callback(...) where no callback was passed: a TypeError is thrown to
\* the caller
Thrown(err) == Result("thrown", err, 0, 0, {}, {})

----------------------------------------------------------------------------
(* Copies and the id generator *)

\* _.clone(item): a new object with the same top-level fields
Clone(oh, r) == [ref |-> NewRef(oh), heap |-> oh @@ (NewRef(oh) :> oh[r])]

\* a generator that hands out the same id again
SetGeneratedIdAgain(oh, r, n) == [oh EXCEPT ![r].id = GenIds[1]]

\* ObjectWriter.setProperty(item, "id", IdGenerator.nextLong())
SetGeneratedId(oh, r, n) == [oh EXCEPT ![r].id = GenIds[n + 1]]

\* an indexOf that never finds the id
IndexOfIdNever(oh, list, id) == 0

\* an indexOf that gives the last position with the id
IndexOfIdLast(oh, list, id) ==
    IF \E i \in 1..Len(list) : oh[list[i]].id = id
    THEN CHOOSE i \in 1..Len(list) :
             /\ oh[list[i]].id = id
             /\ \A j \in (i + 1)..Len(list) : oh[list[j]].id # id
    ELSE 0

\* this._items.map((x) => { return x.id; }).indexOf(id): the first position
\* whose id is strictly equal to id, 0 when there is none (JavaScript's -1)
IndexOfId(oh, list, id) ==
    IF \E i \in 1..Len(list) : oh[list[i]].id = id
    THEN Min({i \in 1..Len(list) : oh[list[i]].id = id})
    ELSE 0

\* a splice that drops the last element whatever the index (pop)
SpliceLast(list, index) == SubSeq(list, 1, Len(list) - 1)

\* this._items.splice(index, 1)
Splice(list, index) ==
    [i \in 1..(Len(list) - 1) |-> IF i < index THEN list[i] ELSE list[i + 1]]

\* an extend that keeps nothing of the item but the map's entries
ExtendFromNothing(rec, data) ==
    [f \in Fields |-> IF f \in DOMAIN data THEN data[f] ELSE Undef]

\* _.extend(item, data.getAsObject()): writes the map's entries into item
Extend(rec, data) ==
    [f \in Fields |-> IF f \in DOMAIN data THEN data[f] ELSE rec[f]]

----------------------------------------------------------------------------
(* Filter and sort functions, paging parameters *)

\* filter arguments: null, or the function DummyMemoryPersistence builds
\* from a key (a null key lets everything through), or the membership
\* function getListByIds / deleteByIds build from ids
NoFilter == [kind |-> "null", val |-> Null]
KeyFilter(key) == [kind |-> "key", val |-> key]
IdsFilter(ids) == [kind |-> "ids", val |-> ids]

\* _.isFunction(filter), _.isFunction(sort)
IsFunction(f) == f.kind # "null"

\* filter(item)
Matches(f, rec) ==
    CASE f.kind = "key" -> ~(f.val # Null /\ rec.key # f.val)
      [] f.kind = "ids" -> \E i \in 1..Len(f.val) : f.val[i] = rec.id
      [] OTHER -> TRUE

\* content.length
ContentLength(c) ==
    CASE c = "x" -> 1
      [] c = "xy" -> 2
      [] c = "xyz" -> 3
      [] OTHER -> 0

\* sort arguments: null, (d) => d.content.length, and the fixture's
\* (d) => d.content.length * -1
NoSort == [kind |-> "null"]
ByLength == [kind |-> "length"]
ByNegLength == [kind |-> "neglength"]

\* sort(item)
SortKey(s, rec) ==
    IF s.kind = "neglength" THEN 0 - ContentLength(rec.content)
    ELSE ContentLength(rec.content)

\* _.filter(items, filter): a new array of the elements filter accepts
RECURSIVE Filter(_, _, _)
Filter(oh, list, f) ==
    IF list = <<>> THEN <<>>
    ELSE IF Matches(f, oh[Head(list)])
         THEN <<Head(list)>> \o Filter(oh, Tail(list), f)
         ELSE Filter(oh, Tail(list), f)

\* a sort step that puts x before the elements with the same key
RECURSIVE InsertSortedUnstable(_, _, _, _)
InsertSortedUnstable(oh, sorted, x, s) ==
    IF sorted = <<>> THEN <<x>>
    ELSE IF SortKey(s, oh[Head(sorted)]) < SortKey(s, oh[x])
         THEN <<Head(sorted)>> \o InsertSortedUnstable(oh, Tail(sorted), x, s)
         ELSE <<x>> \o sorted

\* one step of the sort: x goes behind every element whose key is not larger
RECURSIVE InsertSorted(_, _, _, _)
InsertSorted(oh, sorted, x, s) ==
    IF sorted = <<>> THEN <<x>>
    ELSE IF SortKey(s, oh[Head(sorted)]) <= SortKey(s, oh[x])
         THEN <<Head(sorted)>> \o InsertSorted(oh, Tail(sorted), x, s)
         ELSE <<x>> \o sorted

\* _.sortBy(items, sort): a new array in ascending order of sort(item);
\* elements with equal keys keep their order
RECURSIVE SortBy(_, _, _)
SortBy(oh, list, s) ==
    IF list = <<>> THEN <<>>
    ELSE InsertSorted(oh, SortBy(oh, SubSeq(list, 1, Len(list) - 1), s),
                      list[Len(list)], s)

\* paging arguments: null or a PagingParams; an absent skip or take is {}
NullPaging == [null |-> TRUE]
PagingParams(skip, take, total) == [skip |-> skip, take |-> take, total |-> total]

\* paging != null ? paging : new PagingParams()
OrDefault(paging) ==
    IF paging = NullPaging THEN PagingParams({}, {}, FALSE) ELSE paging

\* PagingParams.getSkip(minSkip)
GetSkip(paging, minSkip) ==
    IF paging.skip = {} THEN minSkip
    ELSE LET skip == CHOOSE n \in paging.skip : TRUE
         IN  IF skip < minSkip THEN minSkip ELSE skip

\* a getTake that forgets the upper limit
GetTakeNoLimit(paging, maxTake) ==
    IF paging.take = {} THEN maxTake
    ELSE LET take == CHOOSE n \in paging.take : TRUE
         IN  IF take < 0 THEN 0 ELSE take

\* PagingParams.getTake(maxTake)
GetTake(paging, maxTake) ==
    IF paging.take = {} THEN maxTake
    ELSE LET take == CHOOSE n \in paging.take : TRUE
         IN  IF take < 0 THEN 0 ELSE IF take > maxTake THEN maxTake ELSE take

\* a slice that starts one element early
SliceEarly(list, skip) == SubSeq(list, skip, Len(list))

\* _.slice(items, skip), skip > 0
Slice(list, skip) == SubSeq(list, skip + 1, Len(list))

\* a take that hands out one element more
TakeOneMore(list, take) ==
    IF take < 0 THEN <<>>
    ELSE IF take + 1 > Len(list) THEN list
    ELSE SubSeq(list, 1, take + 1)

\* _.take(items, take)
Take(list, take) ==
    IF take < 0 THEN <<>>
    ELSE IF take > Len(list) THEN list
    ELSE SubSeq(list, 1, take)

----------------------------------------------------------------------------
(* JsonFilePersister *)

\* the value of path when the Loader and the Saver are no JsonFilePersister
NoPersister == "no persister"
\* the path the persister is configured with
DataPath == "./data/data.json"

\* fs.existsSync(this._path) is false
Missing == [kind |-> "missing", json |-> <<>>]
\* the file exists and fs.readFileSync / fs.writeFileSync on it throw
Locked == [kind |-> "locked", json |-> <<>>]
\* the file exists and its text is no JSON
Malformed == [kind |-> "malformed", json |-> <<>>]
\* the file exists and its text is the JSON text of a list
JsonFile(json) == [kind |-> "json", json |-> json]

IsJsonFile(f) == f.kind = "json"

NoPath == "NO_PATH"
ReadFailed == "READ_FAILED"
WriteFailed == "WRITE_FAILED"

\* JsonConverter.toJson(items), that is JSON.stringify: a field whose value
\* is undefined is left out of the text
ToJson(list) ==
    [i \in 1..Len(list) |->
        [f \in {g \in Fields : list[i][g] # Undef} |-> list[i][f]]]

\* a parser that gives null for a field the text does not have
FromJsonWithNulls(json) ==
    [i \in 1..Len(json) |->
        [f \in Fields |-> IF f \in DOMAIN json[i] THEN json[i][f] ELSE Null]]

\* the objects JSON.parse makes of the text of a list; reading a field the
\* text does not have gives undefined
FromJson(json) ==
    [i \in 1..Len(json) |->
        [f \in Fields |-> IF f \in DOMAIN json[i] THEN json[i][f] ELSE Undef]]

\* JsonConverter.toNullableMap(json): the value of the text, and null when
\* the text cannot be converted (the set is empty then)
ToNullableMap(f) == IF f = Malformed THEN {} ELSE {FromJson(f.json)}

\* ArrayConverter.listToArray(list): [] for null
ListToArray(list) == IF list = {} THEN <<>> ELSE CHOOSE l \in list : TRUE

\* JsonFilePersister.load with this._path = p and f at the path: the error
\* and the list (none for null) its callback receives
PersisterLoad(p, f) ==
    IF IsNullish(p) THEN [err |-> NoPath, list |-> {}]
    ELSE IF f = Missing THEN [err |-> NoErr, list |-> {<<>>}]
    ELSE IF f = Locked THEN [err |-> ReadFailed, list |-> {}]
    ELSE [err |-> NoErr, list |-> {ListToArray(ToNullableMap(f))}]

\* a save that tells of success when the write has failed
PersisterSaveHidesFailure(p, f, list) ==
    IF IsNullish(p) \/ f = Locked
    THEN [err |-> NoErr, file |-> f]
    ELSE [err |-> NoErr, file |-> JsonFile(ToJson(list))]

\* a save that appends the text to the file
PersisterSaveAppends(p, f, list) ==
    IF IsNullish(p) \/ f = Locked
    THEN [err |-> WriteFailed, file |-> f]
    ELSE [err |-> NoErr,
          file |-> IF IsJsonFile(f) THEN JsonFile(f.json \o ToJson(list))
                                    ELSE JsonFile(ToJson(list))]

\* JsonFilePersister.save(items) with this._path = p and f at the path:
\* the error its callback receives and what is at the path afterwards;
\* fs.writeFileSync throws for no path and for a file it may not write
PersisterSave(p, f, list) ==
    IF IsNullish(p) \/ f = Locked
    THEN [err |-> WriteFailed, file |-> f]
    ELSE [err |-> NoErr, file |-> JsonFile(ToJson(list))]

----------------------------------------------------------------------------
(* MemoryPersistence.save and the Saver *)

\* this._opened after the callback that handler op gave to save has run:
\* the callback of close sets it to false
AfterSave(op) == IF op = "close" THEN FALSE ELSE opened

\* a save that hands the Working Set to the Saver and calls back without
\* waiting for the Saver's outcome
SaveNoWait(op, arg, item, oh, ah, it, in) ==
    /\ store' = store
    /\ UNCHANGED <<hasLoader, loading, disk>>
    /\ opened' = AfterSave(op)
    /\ IF hasSaver
       THEN /\ Len(pending) < caller.calls
            /\ step' = Step(op, arg, 1, 1)
            /\ Becomes(World(oh, ah, it, Result(op, NoErr, item, 0, {}, {}),
                   Append(pending, [op |-> op, item |-> item, list |-> it,
                                    data |-> Values(oh, ah, it)]), in))
       ELSE /\ step' = Step(op, arg, 0, 1)
            /\ Becomes(World(oh, ah, it, Result(op, NoErr, item, 0, {}, {}),
                             pending, in))

\* save(correlationId, callback) as handler op calls it, with a callback
\* that hands item to the caller; oh, ah, it are the heaps and this._items
\* as the handler left them, in the caller's input object.  Without a Saver
\* the callback runs at once; with one the Saver is given this._items and
\* the callback waits for the Saver's outcome.
\* A JsonFilePersister as Saver writes the file and runs the callback
\* before save returns.
Save(op, arg, item, oh, ah, it, in) ==
    /\ store' = store
    /\ UNCHANGED <<hasLoader, loading, path>>
    /\ IF ~hasSaver
       THEN /\ file' = file
            /\ opened' = AfterSave(op)
            /\ step' = Step(op, arg, 0, Ncb)
            /\ Becomes(World(oh, ah, it,
                             IfCallback(Result(op, NoErr, item, 0, {}, {})),
                             pending, in))
       ELSE IF path # NoPersister
       THEN LET out == PersisterSave(path, file, Values(oh, ah, it))
            IN  /\ file' = out.file
                /\ opened' = AfterSave(op)
                /\ step' = Step(op, arg, 1, Ncb)
                /\ Becomes(World(oh, ah, it,
                                 IfCallback(Result(op, out.err, item, 0, {}, {})),
                                 pending, in))
       ELSE /\ file' = file
            /\ opened' = opened
            /\ Len(pending) < caller.calls
            /\ step' = Step(op, arg, 1, 0)
            /\ Becomes(World(oh, ah, it, NotYetCalled,
                   Append(pending, [op |-> op, item |-> item, list |-> it,
                                    data |-> Values(oh, ah, it)]), in))

\* a handler that saves although it found nothing to change
NoSaveSaves(op, arg, oh, in) == Save(op, arg, 0, oh, arrs, items, in)

\* a handler that returns without saving and without calling back
NoSaveSilent(op, arg, oh, in) ==
    /\ store' = store
    /\ UNCHANGED <<lifecycle, disk>>
    /\ step' = Step(op, arg, 0, 0)
    /\ Becomes(World(oh, arrs, items, res, pending, in))

\* a handler that returns through callback(null, null) without saving
NoSave(op, arg, oh, in) ==
    /\ store' = store
    /\ UNCHANGED <<lifecycle, disk>>
    /\ step' = Step(op, arg, 0, Ncb)
    /\ Becomes(World(oh, arrs, items,
                     IF caller.callback THEN Result(op, NoErr, 0, 0, {}, {})
                                        ELSE Thrown(TypeError),
                     pending, in))

\* a save callback that tells the caller of success whatever the Saver said
SaverRespondNoError(i, err) ==
    /\ i \in DOMAIN pending
    /\ store' = IF err = NoErr THEN pending[i].data ELSE store
    /\ step' = Step("saverDone", <<pending[i].op, err>>, 0, 1)
    /\ opened' = AfterSave(pending[i].op)
    /\ UNCHANGED <<maxPageSize, hasSaver, caller, nextId, hasLoader, loading, disk>>
    /\ Becomes(World(objs, arrs, items,
           Result(pending[i].op, NoErr, pending[i].item, 0, {}, {}),
           [j \in 1..(Len(pending) - 1) |->
               IF j < i THEN pending[j] ELSE pending[j + 1]],
           inp))

\* a Saver whose every write carries the list as it is when the write
\* is observed, not as it was when save was called
SaverRespondLatest(i, err) ==
    /\ i \in DOMAIN pending
    /\ store' = IF err = NoErr THEN WorkingSet ELSE store
    /\ step' = Step("saverDone", <<pending[i].op, err>>, 0, Ncb)
    /\ opened' = AfterSave(pending[i].op)
    /\ UNCHANGED <<maxPageSize, hasSaver, caller, nextId, hasLoader, loading, disk>>
    /\ Becomes(World(objs, arrs, items,
           IfCallback(Result(pending[i].op, err, pending[i].item, 0, {}, {})),
           [j \in 1..(Len(pending) - 1) |->
               IF j < i THEN pending[j] ELSE pending[j + 1]],
           inp))

\* The Saver reports the outcome of request i: the callback passed to
\* this._saver.save runs and calls the handler's callback.
SaverRespond(i, err) ==
    /\ i \in DOMAIN pending
    /\ store' = IF err = NoErr THEN pending[i].data ELSE store
    /\ step' = Step("saverDone", <<pending[i].op, err>>, 0, Ncb)
    /\ opened' = AfterSave(pending[i].op)
    /\ UNCHANGED <<maxPageSize, hasSaver, caller, nextId, hasLoader, loading, disk>>
    /\ Becomes(World(objs, arrs, items,
           IfCallback(Result(pending[i].op, err, pending[i].item, 0, {}, {})),
           [j \in 1..(Len(pending) - 1) |->
               IF j < i THEN pending[j] ELSE pending[j + 1]],
           inp))

----------------------------------------------------------------------------
(* MemoryPersistence.open, load, close and the Loader *)

\* MemoryPersistence.isOpen()
IsOpen == opened

\* the lists a Loader hands over
LoadedLists ==
    { <<>>,
      <<Rec("a", "k1", "x")>>,
      <<Rec("g1", "k2", "xy"), Rec("a", "k1", Undef)>> }

\* a load callback that adds the loaded records to this._items and drops
\* this._items when the Loader failed
LoadedMerges(op, err, list) ==
    LET it == NewRef(arrs)
        kept == IF err = NoErr THEN arrs[items] ELSE <<>>
        oh == [k \in 1..(Len(objs) + Len(list)) |->
                  IF k <= Len(objs) THEN objs[k] ELSE list[k - Len(objs)]]
        a1 == arrs @@ (it :> kept \o [k \in 1..Len(list) |-> Len(objs) + k])
    IN  /\ opened' = TRUE
        /\ step' = Step(op, <<err, list>>, 0, 1)
        /\ Becomes(World(oh, a1, it, Result("open", err, 0, 0, {}, {}),
                         pending, 0))

\* The callback load gives to this._loader.load receives err and list,
\* and then the callback open gave to load runs: on success this._items is
\* the loaded list, then this._opened = true and open's caller is called
\* with err.  op is the step in which this happens.  The list is the
\* Loader's array; a JsonFilePersister keeps no reference to it.
Loaded(op, err, list) ==
    LET it == NewRef(arrs)
        oh == [k \in 1..(Len(objs) + Len(list)) |->
                  IF k <= Len(objs) THEN objs[k] ELSE list[k - Len(objs)]]
        a1 == arrs @@ (it :> [k \in 1..Len(list) |-> Len(objs) + k])
    IN  /\ opened' = TRUE
        /\ step' = Step(op, <<err, list>>, 0, Ncb)
        /\ IF err = NoErr
           THEN Becomes([World(oh, a1, it,
                               IfCallback(Result("open", NoErr, 0, 0, {}, {})),
                               pending, 0)
                           EXCEPT !.loaded = IF path = NoPersister THEN it ELSE 0])
           ELSE Becomes(World(objs, arrs, items,
                              IfCallback(Result("open", err, 0, 0, {}, {})),
                              pending, 0))

\* the same callbacks in a new instance, whose this._items is []
LoadedAfresh(op, err, list) ==
    /\ opened' = TRUE
    /\ step' = Step(op, <<err, list>>, 0, 1)
    /\ Becomes([World(list,
                     IF err = NoErr THEN <<<<>>, [k \in 1..Len(list) |-> k]>>
                                    ELSE <<<<>>>>,
                     IF err = NoErr THEN 2 ELSE 1,
                     Result("open", err, 0, 0, {}, {}), <<>>, 0)
                  EXCEPT !.loaded = 0])

\* an open that sets this._opened before it asks the Loader
OpenMarksAtOnce ==
    /\ store' = store
    /\ UNCHANGED <<maxPageSize, hasSaver, caller, nextId, hasLoader, disk>>
    /\ IF ~hasLoader
       THEN /\ loading' = loading
            /\ opened' = TRUE
            /\ step' = Step("open", <<>>, 0, 1)
            /\ Becomes(World(objs, arrs, items,
                             Result("open", NoErr, 0, 0, {}, {}), pending, 0))
       ELSE /\ loading < MaxLoading
            /\ loading' = loading + 1
            /\ opened' = TRUE
            /\ step' = Step("open", <<>>, 0, 0)
            /\ UNCHANGED <<objs, arrs, items, res, pending, inp, loaded>>

\* MemoryPersistence.open: without a Loader load calls back at once; a
\* JsonFilePersister as Loader reads the file and calls back before load
\* returns; another Loader is asked and answers later.
Open ==
    /\ store' = store
    /\ UNCHANGED <<maxPageSize, hasSaver, caller, nextId, hasLoader, disk>>
    /\ IF ~hasLoader
       THEN /\ loading' = loading
            /\ opened' = TRUE
            /\ step' = Step("open", <<>>, 0, Ncb)
            /\ Becomes(World(objs, arrs, items,
                             IfCallback(Result("open", NoErr, 0, 0, {}, {})),
                             pending, 0))
       ELSE IF path # NoPersister
       THEN LET out == PersisterLoad(path, file)
            IN  /\ loading' = loading
                /\ Loaded("open", out.err, ListToArray(out.list))
       ELSE /\ loading < MaxLoading
            /\ loading' = loading + 1
            /\ opened' = opened
            /\ step' = Step("open", <<>>, 0, 0)
            /\ UNCHANGED <<objs, arrs, items, res, pending, inp, loaded>>

\* The Loader reports the outcome of a request.
LoaderRespond(err, list) ==
    /\ loading > 0
    /\ loading' = loading - 1
    /\ store' = store
    /\ UNCHANGED <<maxPageSize, hasSaver, caller, nextId, hasLoader, disk>>
    /\ Loaded("loaderDone", err, IF err = NoErr THEN list ELSE <<>>)

\* The user drops the instance whose last call has written the file, makes
\* a new IdentifiableFilePersistence, configures it with the same path and
\* opens it.
Restart ==
    /\ path # NoPersister
    /\ step.nsave = 1
    /\ step.ncb = 1
    /\ store' = store
    /\ maxPageSize' = DefaultMaxPageSize
    /\ UNCHANGED <<hasSaver, caller, nextId, hasLoader, loading, disk>>
    /\ LET out == PersisterLoad(path, file)
       IN  LoadedAfresh("restart", out.err, ListToArray(out.list))

\* JsonFilePersister.configure: the path option is p
PersisterConfigure(p) ==
    /\ path' = p
    /\ path # p
    /\ step' = Step("configurePath", p, 0, 0)
    /\ UNCHANGED <<objs, arrs, items, maxPageSize, hasSaver, caller, nextId, pending,
                   store, res, inp, lifecycle, file, loaded>>

\* JsonFilePersister.load, called by a user of the persister, who receives
\* the error and the list
PersisterLoadCall ==
    LET out  == PersisterLoad(path, file)
        list == ListToArray(out.list)
        it   == NewRef(arrs)
        a1   == arrs @@ (it :> [k \in 1..Len(list) |-> Len(objs) + k])
        oh   == [k \in 1..(Len(objs) + Len(list)) |->
                    IF k <= Len(objs) THEN objs[k] ELSE list[k - Len(objs)]]
    IN  /\ step' = Step("load", <<>>, 0, 1)
        /\ store' = store
        /\ UNCHANGED <<maxPageSize, hasSaver, caller, nextId, lifecycle, disk>>
        /\ Becomes(World(oh, a1, items,
                         Result("load", out.err, 0,
                                IF out.list = {} THEN 0 ELSE it, {}, {}),
                         pending, 0))

\* JsonFilePersister.save(list), called by a user of the persister, who
\* receives the error
PersisterSaveCall(list) ==
    LET out == PersisterSave(path, file, list)
    IN  /\ file' = out.file
        /\ step' = Step("save", list, 1, 1)
        /\ store' = store
        /\ UNCHANGED <<maxPageSize, hasSaver, caller, nextId, lifecycle, path>>
        /\ Becomes(World(objs, arrs, items,
                         Result("save", out.err, 0, 0, {}, {}), pending, 0))

\* JsonFilePersister.save(list) called without a callback: success is not
\* reported to anybody, and the FileException of a failure is thrown to
\* the caller
PersisterSaveNoCallback(list) ==
    LET out == PersisterSave(path, file, list)
    IN  /\ file' = out.file
        /\ step' = Step("saveNoCallback", list, 1, 0)
        /\ store' = store
        /\ UNCHANGED <<maxPageSize, hasSaver, caller, nextId, lifecycle, path>>
        /\ Becomes(World(objs, arrs, items,
                         IF out.err = NoErr THEN NoResult
                         ELSE Result("thrown", out.err, 0, 0, {}, {}),
                         pending, 0))

\* what a callback throws that fails while it handles a successful result
CallbackError == "CallbackError"

\* JsonFilePersister.save(list) with a callback that throws when it is told
\* of success: callback(null) runs inside the try block, so the catch block
\* takes the callback's error for a write error and calls back again
PersisterSaveThrowingCallback(list) ==
    LET out == PersisterSave(path, file, list)
    IN  /\ file' = out.file
        /\ step' = Step("saveThrows", list, 1, IF out.err = NoErr THEN 2 ELSE 1)
        /\ store' = store
        /\ UNCHANGED <<maxPageSize, hasSaver, caller, nextId, lifecycle, path>>
        /\ Becomes(World(objs, arrs, items,
                         Result("save", WriteFailed, 0, 0, {}, {}), pending, 0))

\* JsonFilePersister.load with a callback that throws when it is given a
\* list: callback(null, []) for a missing file is outside the try block and
\* its error reaches the caller of load; callback(null, arr) is inside, so
\* the catch block calls back again with READ_FAILED
PersisterLoadThrowingCallback ==
    LET out == PersisterLoad(path, file)
    IN  /\ step' = Step("loadThrows", <<>>, 0,
                        IF out.err = NoErr /\ file # Missing THEN 2 ELSE 1)
        /\ store' = store
        /\ UNCHANGED <<maxPageSize, hasSaver, caller, nextId, lifecycle, disk>>
        /\ Becomes(World(objs, arrs, items,
                         IF out.err # NoErr
                         THEN Result("load", out.err, 0, 0, {}, {})
                         ELSE IF file = Missing THEN Thrown(CallbackError)
                         ELSE Result("load", ReadFailed, 0, 0, {}, {}),
                         pending, 0))

\* MemoryPersistence.save, called by the user of the persistence
SaveItems ==
    /\ UNCHANGED <<maxPageSize, hasSaver, caller, nextId>>
    /\ Save("save", <<>>, 0, objs, arrs, items, 0)

\* a close that sets this._opened = false and calls back without a save
CloseWithoutSave ==
    /\ UNCHANGED <<maxPageSize, hasSaver, caller, nextId, hasLoader, loading, disk>>
    /\ store' = store
    /\ opened' = FALSE
    /\ step' = Step("close", <<>>, 0, 1)
    /\ Becomes(World(objs, arrs, items, Result("close", NoErr, 0, 0, {}, {}),
                     pending, 0))

\* MemoryPersistence.close: save, and in its callback this._opened = false
Close ==
    /\ UNCHANGED <<maxPageSize, hasSaver, caller, nextId>>
    /\ Save("close", <<>>, 0, objs, arrs, items, 0)

----------------------------------------------------------------------------
(* Mutating operations *)

\* a create that clones the item and forgets to push it
MemCreateNoPush(oh, ah, it, r) ==
    LET c == Clone(oh, r)
    IN  [heap |-> c.heap, arrs |-> ah, item |-> c.ref]

\* a create that puts the clone in front (unshift for push)
MemCreateInFront(oh, ah, it, r) ==
    LET c == Clone(oh, r)
    IN  [heap |-> c.heap, arrs |-> [ah EXCEPT ![it] = <<c.ref>> \o @],
         item |-> c.ref]

\* MemoryPersistence.create: item = _.clone(item); this._items.push(item)
\* a create that pushes the record it was given
MemCreateNoClone(oh, ah, it, r) ==
    [heap |-> oh, arrs |-> [ah EXCEPT ![it] = Append(@, r)], item |-> r]

MemCreate(oh, ah, it, r) ==
    LET c == Clone(oh, r)
    IN  [heap |-> c.heap, arrs |-> [ah EXCEPT ![it] = Append(@, c.ref)],
         item |-> c.ref]

\* IdentifiableMemoryPersistence.create(item), item a new object literal rec
Create(rec) ==
    /\ Len(arrs[items]) < MaxItems
    /\ IsNullish(rec.id) => nextId < MaxGen
    /\ LET in == NewRef(objs)
           h0 == objs @@ (in :> rec)
           c  == Clone(h0, in)
           h1 == IF IsNullish(rec.id) THEN SetGeneratedId(c.heap, c.ref, nextId)
                                      ELSE h0
           r1 == IF IsNullish(rec.id) THEN c.ref ELSE in
           m  == MemCreate(h1, arrs, items, r1)
       IN  /\ nextId' = IF IsNullish(rec.id) THEN nextId + 1 ELSE nextId
           /\ UNCHANGED <<maxPageSize, hasSaver, caller>>
           /\ Save("create", rec, m.item, m.heap, m.arrs, items, in)

\* IdentifiableMemoryPersistence.set(item), item a new object literal rec
Set(rec) ==
    /\ IsNullish(rec.id) => nextId < MaxGen
    /\ LET in == NewRef(objs)
           h0 == objs @@ (in :> rec)
           c  == Clone(h0, in)
           h1 == IF IsNullish(rec.id) THEN SetGeneratedId(c.heap, c.ref, nextId)
                                      ELSE c.heap
           index == IndexOfId(h1, arrs[items], h1[c.ref].id)
           a1 == IF index = 0 THEN [arrs EXCEPT ![items] = Append(@, c.ref)]
                              ELSE [arrs EXCEPT ![items][index] = c.ref]
       IN  /\ index = 0 => Len(arrs[items]) < MaxItems
           /\ nextId' = IF IsNullish(rec.id) THEN nextId + 1 ELSE nextId
           /\ UNCHANGED <<maxPageSize, hasSaver, caller>>
           /\ Save("set", rec, c.ref, h1, a1, items, in)

\* an update that writes the fields the argument has into the stored record
\* and keeps the others
UpdateMerges(rec) ==
    LET in == NewRef(objs)
        h0 == objs @@ (in :> rec)
        index == IndexOfId(h0, arrs[items], h0[in].id)
        old == arrs[items][index]
        h1 == [h0 EXCEPT ![old] =
                 [f \in Fields |-> IF rec[f] = Undef THEN @[f] ELSE rec[f]]]
    IN  /\ UNCHANGED <<maxPageSize, hasSaver, caller, nextId>>
        /\ IF index = 0
           THEN NoSave("update", rec, h0, in)
           ELSE Save("update", rec, old, h1, arrs, items, in)

\* IdentifiableMemoryPersistence.update(item), item a new object literal rec
Update(rec) ==
    LET in == NewRef(objs)
        h0 == objs @@ (in :> rec)
        index == IndexOfId(h0, arrs[items], h0[in].id)
        c  == Clone(h0, in)
        a1 == [arrs EXCEPT ![items][index] = c.ref]
    IN  /\ UNCHANGED <<maxPageSize, hasSaver, caller, nextId>>
        /\ IF index = 0
           THEN NoSave("update", rec, h0, in)
           ELSE Save("update", rec, c.ref, c.heap, a1, items, in)

\* IdentifiableMemoryPersistence.updatePartially(id, data)
UpdatePartially(id, data) ==
    LET index == IndexOfId(objs, arrs[items], id)
        item  == arrs[items][index]
        h1    == [objs EXCEPT ![item] = Extend(@, data)]
    IN  /\ UNCHANGED <<maxPageSize, hasSaver, caller, nextId>>
        /\ IF index = 0
           THEN NoSave("updatePartially", <<id, data>>, objs, 0)
           ELSE Save("updatePartially", <<id, data>>, item, h1, arrs, items, 0)

\* a deleteById that splices without looking at the index: splice(-1, 1)
\* takes the last record when the id is not found
DeleteByIdUnchecked(id) ==
    LET found == IndexOfId(objs, arrs[items], id)
        index == IF found = 0 THEN Len(arrs[items]) ELSE found
        item  == arrs[items][index]
        a1    == [arrs EXCEPT ![items] = Splice(@, index)]
    IN  /\ UNCHANGED <<maxPageSize, hasSaver, caller, nextId>>
        /\ IF index = 0
           THEN NoSave("deleteById", id, objs, 0)
           ELSE Save("deleteById", id, item, objs, a1, items, 0)

\* IdentifiableMemoryPersistence.deleteById(id)
DeleteById(id) ==
    LET index == IndexOfId(objs, arrs[items], id)
        item  == arrs[items][index]
        a1    == [arrs EXCEPT ![items] = Splice(@, index)]
    IN  /\ UNCHANGED <<maxPageSize, hasSaver, caller, nextId>>
        /\ IF index = 0
           THEN NoSave("deleteById", id, objs, 0)
           ELSE Save("deleteById", id, item, objs, a1, items, 0)

\* MemoryPersistence.clear: this._items = []
Clear ==
    LET it == NewRef(arrs)
        a1 == arrs @@ (it :> <<>>)
    IN  /\ UNCHANGED <<maxPageSize, hasSaver, caller, nextId>>
        /\ Save("clear", <<>>, 0, objs, a1, it, 0)

\* a loop that runs from the first position up and, after a splice, steps
\* over the element that moved into the spliced position
RECURSIVE RemoveForward(_, _, _, _)
RemoveForward(oh, list, i, filter) ==
    IF i > Len(list) THEN [list |-> list, deleted |-> 0]
    ELSE IF Matches(filter, oh[list[i]])
         THEN LET rest == RemoveForward(oh, Splice(list, i), i + 1, filter)
              IN  [list |-> rest.list, deleted |-> rest.deleted + 1]
         ELSE RemoveForward(oh, list, i + 1, filter)

RemoveMatchesForward(oh, list, index, filter) ==
    RemoveForward(oh, list, 1, filter)

\* the loop of deleteByFilter: from position index down to the first,
\* this._items.splice(index, 1) whenever filter(item) holds
RECURSIVE RemoveMatches(_, _, _, _)
RemoveMatches(oh, list, index, filter) ==
    IF index = 0 THEN [list |-> list, deleted |-> 0]
    ELSE IF Matches(filter, oh[list[index]])
         THEN LET rest == RemoveMatches(oh, Splice(list, index), index - 1, filter)
              IN  [list |-> rest.list, deleted |-> rest.deleted + 1]
         ELSE RemoveMatches(oh, list, index - 1, filter)

\* a deleteByFilter that calls back after the loop and never saves
DeleteMatchingUnsaved(op, arg, filter) ==
    LET r  == RemoveMatches(objs, arrs[items], Len(arrs[items]), filter)
        a1 == [arrs EXCEPT ![items] = r.list]
    IN  /\ UNCHANGED <<maxPageSize, hasSaver, caller, nextId, lifecycle, disk>>
        /\ store' = store
        /\ step' = Step(op, arg, 0, 1)
        /\ Becomes(World(objs, a1, items, Result(op, NoErr, 0, 0, {}, {}),
                         pending, 0))

\* MemoryPersistence.deleteByFilter(filter), called as op
DeleteMatching(op, arg, filter) ==
    LET r  == RemoveMatches(objs, arrs[items], Len(arrs[items]), filter)
        a1 == [arrs EXCEPT ![items] = r.list]
    IN  /\ UNCHANGED <<maxPageSize, hasSaver, caller, nextId>>
        /\ IF r.deleted = 0
           THEN NoSave(op, arg, objs, 0)
           ELSE Save(op, arg, 0, objs, a1, items, 0)

DeleteByFilter(filter) == DeleteMatching("deleteByFilter", filter, filter)

\* IdentifiableMemoryPersistence.deleteByIds(ids)
DeleteByIds(ids) == DeleteMatching("deleteByIds", ids, IdsFilter(ids))

----------------------------------------------------------------------------
(* Read operations *)

\* the filter and sort steps of getPageByFilter and getListByFilter
Select(oh, list, filter, sort) ==
    LET filtered == IF IsFunction(filter) THEN Filter(oh, list, filter) ELSE list
    IN  IF IsFunction(sort) THEN SortBy(oh, filtered, sort) ELSE filtered

\* a read hands its result to the callback at once
Read(op, arg, item, list, total, count, ah) ==
    /\ store' = store
    /\ UNCHANGED <<lifecycle, disk>>
    /\ step' = Step(op, arg, 0, Ncb)
    /\ UNCHANGED <<maxPageSize, hasSaver, caller, nextId>>
    /\ IF caller.callback
       THEN Becomes(World(objs, ah, items,
                          Result(op, NoErr, item, list, total, count),
                          pending, 0))
       ELSE Becomes(World(objs, arrs, items, Thrown(TypeError), pending, 0))

\* let total = null; if (paging.total) total = items.length
Total(paging, selected) == IF paging.total THEN {Len(selected)} ELSE {}

\* a page whose total is counted after the sub-range was cut out
PageCountedLate(oh, list, max, filter, paging, sort) ==
    LET selected == Select(oh, list, filter, sort)
        p        == OrDefault(paging)
        skip     == GetSkip(p, -1)
        take     == GetTake(p, max)
        skipped  == IF skip > 0 THEN Slice(selected, skip) ELSE selected
    IN  [data  |-> Take(skipped, take),
         total |-> Total(p, Take(skipped, take))]

\* the page getPageByFilter builds: its items and its total
Page(oh, list, max, filter, paging, sort) ==
    LET selected == Select(oh, list, filter, sort)
        p        == OrDefault(paging)
        skip     == GetSkip(p, -1)
        take     == GetTake(p, max)
        skipped  == IF skip > 0 THEN Slice(selected, skip) ELSE selected
    IN  [data  |-> Take(skipped, take), total |-> Total(p, selected)]

\* MemoryPersistence.getPageByFilter(filter, paging, sort)
GetPageByFilter(filter, paging, sort) ==
    LET page == Page(objs, arrs[items], maxPageSize, filter, paging, sort)
        data == NewRef(arrs)
    IN  Read("getPageByFilter", <<filter, paging, sort>>, 0, data, page.total,
             {}, arrs @@ (data :> page.data))

\* MemoryPersistence.getCountByFilter(filter)
GetCountByFilter(filter) ==
    LET counted == IF IsFunction(filter) THEN Filter(objs, arrs[items], filter)
                                         ELSE arrs[items]
    IN  Read("getCountByFilter", filter, 0, 0, {}, {Len(counted)}, arrs)

\* the array getListByFilter hands out: this._items itself when neither
\* _.filter nor _.sortBy made a new one
ListByFilter(ah, it, oh, filter, sort) ==
    IF IsFunction(filter) \/ IsFunction(sort)
    THEN [list |-> NewRef(ah),
          arrs |-> ah @@ (NewRef(ah) :> Select(oh, ah[it], filter, sort))]
    ELSE [list |-> it, arrs |-> ah]

\* a getListByFilter that sorts this._items itself (Array.prototype.sort
\* for _.sortBy) and hands it out
GetListByFilterInPlace(filter, sort) ==
    LET sorted == IF IsFunction(sort) THEN SortBy(objs, arrs[items], sort)
                                      ELSE arrs[items]
        a1 == [arrs EXCEPT ![items] = sorted]
        l  == ListByFilter(a1, items, objs, filter, NoSort)
    IN  Read("getListByFilter", <<filter, sort>>, 0, l.list, {}, {}, l.arrs)

\* MemoryPersistence.getListByFilter(filter, sort)
GetListByFilter(filter, sort) ==
    LET l == ListByFilter(arrs, items, objs, filter, sort)
    IN  Read("getListByFilter", <<filter, sort>>, 0, l.list, {}, {}, l.arrs)

\* the first element of list with exactly the id, 0 when there is none
OneByIdStrict(oh, list, id) ==
    IF IndexOfId(oh, list, id) = 0 THEN 0 ELSE list[IndexOfId(oh, list, id)]

\* a getListByIds that looks the ids up one by one, in the order of ids
RECURSIVE LookUpEach(_, _, _)
LookUpEach(oh, list, ids) ==
    IF ids = <<>> THEN <<>>
    ELSE (IF OneByIdStrict(oh, list, Head(ids)) = 0 THEN <<>>
          ELSE <<OneByIdStrict(oh, list, Head(ids))>>)
         \o LookUpEach(oh, list, Tail(ids))

GetListByIdsInOrderOfIds(ids) ==
    LET data == NewRef(arrs)
    IN  Read("getListByIds", ids, 0, data, {}, {},
             arrs @@ (data :> LookUpEach(objs, arrs[items], ids)))

\* IdentifiableMemoryPersistence.getListByIds(ids)
GetListByIds(ids) ==
    LET l == ListByFilter(arrs, items, objs, IdsFilter(ids), NoSort)
    IN  Read("getListByIds", ids, 0, l.list, {}, {}, l.arrs)

\* MemoryPersistence.getOneRandom(filter): _.sample picks any element
GetOneRandom(filter) ==
    LET found == IF IsFunction(filter) THEN Filter(objs, arrs[items], filter)
                                       ELSE arrs[items]
    IN  \/ /\ found = <<>>
           /\ Read("getOneRandom", filter, 0, 0, {}, {}, arrs)
        \/ \E i \in 1..Len(found) :
              Read("getOneRandom", filter, found[i], 0, {}, {}, arrs)

\* this._items.filter((x) => {return x.id == id;}), then items[0] or null
OneById(oh, list, id) ==
    LET found == {i \in 1..Len(list) : LooseEq(oh[list[i]].id, id)}
    IN  IF found = {} THEN 0 ELSE list[Min(found)]

\* IdentifiableMemoryPersistence.getOneById(id)
GetOneById(id) ==
    Read("getOneById", id, OneById(objs, arrs[items], id), 0, {}, {}, arrs)

----------------------------------------------------------------------------
(* The caller *)

\* The caller assigns value to field f of an object it holds a reference to.
Write(ref, f, value) ==
    /\ ref # 0
    /\ objs[ref][f] # value
    /\ objs' = [objs EXCEPT ![ref][f] = value]
    /\ step' = Step("write", <<f, value>>, 0, 0)
    /\ UNCHANGED <<arrs, items, maxPageSize, hasSaver, caller, nextId, pending, store,
                   res, inp, lifecycle, disk, loaded>>

\* ... of the record its callback received
WriteItem(f, value) == Write(res.item, f, value)

\* ... of its own input record
WriteInput(f, value) == Write(inp, f, value)

\* ... of record i of the list or page its callback received
WriteListItem(i, f, value) ==
    /\ res.list # 0
    /\ i \in 1..Len(arrs[res.list])
    /\ Write(arrs[res.list][i], f, value)

\* the object an outside party puts into an array it holds
Foreign == Rec("zz", "k1", "x")

\* Party who, which holds a reference to array ref, pushes a new object,
\* pops the last element, or puts a new object in the first place.
ListWrite(who, ref, change) ==
    /\ ref # 0
    /\ change = "push" => Len(arrs[ref]) < MaxItems
    /\ change # "push" => arrs[ref] # <<>>
    /\ LET o   == NewRef(objs)
           oh  == objs @@ (o :> Foreign)
           new == IF change = "push" THEN Append(arrs[ref], o)
                  ELSE IF change = "pop"
                  THEN SubSeq(arrs[ref], 1, Len(arrs[ref]) - 1)
                  ELSE [arrs[ref] EXCEPT ![1] = o]
       IN  /\ step' = Step("listWrite", <<who, change>>, 0, 0)
           /\ store' = store
           /\ UNCHANGED <<maxPageSize, hasSaver, caller, nextId, lifecycle, disk>>
           /\ Becomes(World(oh, [arrs EXCEPT ![ref] = new], items, res,
                            pending, inp))

\* the caller changes the list or page its callback received
CallerListWrite(change) == ListWrite("caller", res.list, change)

\* the Saver changes the list it was given, before it answers
SaverListWrite(i, change) ==
    /\ i \in DOMAIN pending
    /\ ListWrite("saver", pending[i].list, change)

\* the Loader changes the list it has handed over
LoaderListWrite(change) == ListWrite("loader", loaded, change)

\* MemoryPersistence.configure: options.max_page_size is set to max
Configure(max) ==
    /\ maxPageSize' = max
    /\ step' = Step("configure", max, 0, 0)
    /\ UNCHANGED <<objs, arrs, items, hasSaver, caller, nextId, pending, store, res, inp,
                   lifecycle, disk, loaded>>

----------------------------------------------------------------------------
(* Specifications *)

\* new IdentifiableMemoryPersistence(loader, saver): this._items = list,
\* this._opened = false; p is the path of the JsonFilePersister that is the
\* Loader and the Saver, if one is, and f what the path holds
InitCaller(who, ldr, saver, p, f, oh, list) ==
    /\ caller = who
    /\ objs = oh
    /\ arrs = <<list>>
    /\ items = 1
    /\ maxPageSize = DefaultMaxPageSize
    /\ hasSaver = saver
    /\ nextId = 0
    /\ pending = <<>>
    /\ store = <<>>
    /\ res = NoResult
    /\ step = Step("init", <<>>, 0, 0)
    /\ inp = 0
    /\ opened = FALSE
    /\ hasLoader = ldr
    /\ loading = 0
    /\ path = p
    /\ file = f
    /\ loaded = 0

\* the caller passes a callback to every call and waits for it
InitAll(ldr, saver, p, f, oh, list) ==
    InitCaller(WithCallbacks(MaxPending), ldr, saver, p, f, oh, list)

\* an instance without a Loader
InitWith(saver, oh, list) == InitAll(FALSE, saver, NoPersister, Missing, oh, list)

\* new IdentifiableMemoryPersistence(): no Loader, no Saver, nothing stored
Init == InitWith(FALSE, <<>>, <<>>)

\* The calls of a caller of an instance without a Saver.
Next ==
    \/ \E rec \in InputRecords : Create(rec)
    \/ \E rec \in InputRecords : Set(rec)
    \/ \E rec \in InputRecords : Update(rec)
    \/ \E id \in IdArgs, data \in FieldMaps : UpdatePartially(id, data)
    \/ \E id \in IdArgs : DeleteById(id)
    \/ DeleteByIds(<<"g1", "a">>)
    \/ Clear
    \/ \E id \in IdArgs : GetOneById(id)
    \/ GetListByFilter(NoFilter, NoSort)
    \/ GetListByIds(<<"g1", "a">>)
    \/ GetPageByFilter(KeyFilter("k1"), NullPaging, NoSort)
    \/ WriteItem("content", "xyz")
    \/ WriteInput("content", "xyz")
    \/ \E i \in 1..MaxItems : WriteListItem(i, "content", "xyz")

Spec == Init /\ [][Next]_vars

\* new IdentifiableMemoryPersistence(null, saver), nothing stored
InitSaver == InitWith(TRUE, <<>>, <<>>)

\* The calls of a caller of an instance with a Saver, and the Saver's
\* answers, which succeed or fail.
NextSaver ==
    \/ Create(Rec(Null, "k1", "x"))
    \/ Set(Rec("a", "k2", "xy"))
    \/ Update(Rec("a", "k1", Undef))
    \/ UpdatePartially("a", [content |-> "xyz"])
    \/ \E id \in {"a", "g1"} : DeleteById(id)
    \/ DeleteByIds(<<"g1", "a">>)
    \/ Clear
    \/ \E i \in 1..MaxPending, err \in {NoErr, SaveError} : SaverRespond(i, err)

SpecSaver == InitSaver /\ [][NextSaver]_vars

\* The calls of a caller that awaits the completion of each call before it
\* issues the next one
SequentialCalls ==
    /\ pending = <<>>
    /\ \/ Create(Rec(Null, "k1", "x"))
       \/ Set(Rec("a", "k2", "xy"))
       \/ Update(Rec("a", "k1", Undef))
       \/ UpdatePartially("a", [content |-> "xyz"])
       \/ \E id \in {"a", "g1"} : DeleteById(id)
       \/ DeleteByIds(<<"g1", "a">>)
       \/ DeleteByFilter(KeyFilter("k1"))
       \/ Clear

\* An instance with a Saver whose save never fails, called one call at a
\* time.
NextSequential ==
    \/ SequentialCalls
    \/ SaverRespond(1, NoErr)

SpecSequential == InitSaver /\ [][NextSequential]_vars

\* An instance with a Saver whose save succeeds or fails, called one call
\* at a time.
NextOneAtATime ==
    \/ SequentialCalls
    \/ \E err \in {NoErr, SaveError} : SaverRespond(1, err)

SpecOneAtATime == InitSaver /\ [][NextOneAtATime]_vars

\* The calls of the fixture's delete scenario: records are stored with
\* generated and explicit ids, changed, deleted by id, and read back by id
\* and counted.
NextDeleteRead ==
    \/ \E rec \in {Rec(Null, "k1", "x"), Rec("a", "k2", "xy")} : Create(rec)
    \/ Set(Rec("a", "k1", Undef))
    \/ Update(Rec("a", "k1", "x"))
    \/ \E id \in {"a", "g1"}, data \in FieldMaps : UpdatePartially(id, data)
    \/ \E id \in {"a", "g1"} : DeleteById(id)
    \/ \E id \in {"a", "g1"} : GetOneById(id)
    \/ GetCountByFilter(NoFilter)

SpecDeleteRead == Init /\ [][NextDeleteRead]_vars

\* Calls of a caller that names one record by the string '1' in some calls
\* and by the number 1 in others.
MixedIds == {One, NumberOne}

NextMixedIds ==
    \/ \E id \in MixedIds : Create(Rec(id, "k1", "x"))
    \/ \E id \in MixedIds : Set(Rec(id, "k2", "xy"))
    \/ \E id \in MixedIds : UpdatePartially(id, [content |-> "xyz"])
    \/ \E id \in MixedIds : DeleteById(id)
    \/ \E id \in MixedIds : DeleteByIds(<<id>>)
    \/ \E id \in MixedIds : GetOneById(id)
    \/ \E id \in MixedIds : GetListByIds(<<id>>)

SpecMixedIds == Init /\ [][NextMixedIds]_vars

\* new IdentifiableMemoryPersistence(loader, saver) with and without a
\* Loader and a Saver
InitLifecycle ==
    \E ldr \in BOOLEAN, saver \in BOOLEAN :
        InitAll(ldr, saver, NoPersister, Missing, <<>>, <<>>)

\* The instance is opened, changed, saved and closed, in any order; the
\* Loader and the Saver answer with success or with an error.
NextLifecycle ==
    \/ Open
    \/ \E err \in {NoErr, LoadError}, list \in LoadedLists :
          LoaderRespond(err, list)
    \/ Close
    \/ SaveItems
    \/ \E i \in 1..MaxPending, err \in {NoErr, SaveError} : SaverRespond(i, err)
    \/ Create(Rec(Null, "k1", "x"))
    \/ DeleteById("a")
    \/ GetOneById("a")

SpecLifecycle == InitLifecycle /\ [][NextLifecycle]_vars

ListChanges == {"push", "pop", "replace"}

\* The instance is opened, filled and read, and the caller, the Saver and
\* the Loader change the lists they hold.
NextOwnership ==
    \/ pending = <<>> /\ Open
    \/ LoaderRespond(NoErr, <<Rec("a", "k1", "x")>>)
    \/ pending = <<>> /\ Len(arrs[items]) < MaxOwned /\ Create(Rec("a", "k1", "x"))
    \/ SaverRespond(1, NoErr)
    \/ \E filter \in {NoFilter, KeyFilter("k1")} : GetListByFilter(filter, NoSort)
    \/ GetListByFilter(NoFilter, ByLength)
    \/ GetListByIds(<<"a">>)
    \/ GetPageByFilter(NoFilter, NullPaging, NoSort)
    \/ step.op # "listWrite" /\ \E change \in ListChanges : CallerListWrite(change)
    \/ step.op # "listWrite" /\ \E change \in ListChanges : SaverListWrite(1, change)
    \/ step.op # "listWrite" /\ \E change \in ListChanges : LoaderListWrite(change)

\* an instance with a Loader and a Saver
InitOwnership == InitAll(TRUE, TRUE, NoPersister, Missing, <<>>, <<>>)

SpecOwnership == InitOwnership /\ [][NextOwnership]_vars

\* Every operation of the persistence once, with a Loader and a Saver that
\* answer each request once, with success or with a failure.
NextCompletion ==
    \/ Open
    \/ \E err \in {NoErr, LoadError} :
          LoaderRespond(err, <<Rec("a", "k1", "x")>>)
    \/ Close
    \/ SaveItems
    \/ Clear
    \/ Len(arrs[items]) < MaxOwned /\ Create(Rec("a", "k1", "x"))
    \/ Set(Rec("a", "k1", "x"))
    \/ Update(Rec("a", "k1", "x"))
    \/ UpdatePartially("a", [content |-> "x"])
    \/ DeleteById("a")
    \/ DeleteByIds(<<"a">>)
    \/ DeleteByFilter(KeyFilter("k1"))
    \/ GetOneById("a")
    \/ GetListByIds(<<"a">>)
    \/ GetListByFilter(NoFilter, NoSort)
    \/ GetPageByFilter(NoFilter, NullPaging, NoSort)
    \/ GetCountByFilter(KeyFilter("k1"))
    \/ GetOneRandom(NoFilter)
    \/ \E err \in {NoErr, SaveError} : SaverRespond(1, err)

\* A caller that issues calls without waiting for the one before: up to
\* MaxOverlap saves are with the Saver at a time, and the Saver answers
\* them in any order.
NextOverlap ==
    \/ Len(arrs[items]) < MaxOwned /\ \E id \in {"a", "b"} : Create(Rec(id, "k1", "x"))
    \/ Set(Rec("a", "k2", "xy"))
    \/ DeleteByFilter(KeyFilter("k1"))
    \/ DeleteById("b")
    \/ GetOneById("a")
    \/ GetCountByFilter(KeyFilter("k1"))
    \/ GetListByFilter(KeyFilter("k1"), NoSort)
    \/ \E i \in 1..MaxOverlap, err \in {NoErr, SaveError} : SaverRespond(i, err)

InitOverlap ==
    InitCaller(WithCallbacks(MaxOverlap), FALSE, TRUE, NoPersister, Missing,
               <<>>, <<>>)

SpecOverlap == InitOverlap /\ [][NextOverlap]_vars

\* A caller that passes no callback to any call.
NextOptional ==
    \/ Len(arrs[items]) < MaxOwned /\ Create(Rec("a", "k1", "x"))
    \/ Set(Rec("b", "k2", "xy"))
    \/ \E id \in {"a", "c"} : Update(Rec(id, "k1", "xyz"))
    \/ \E id \in {"a", "c"} : UpdatePartially(id, [content |-> "xyz"])
    \/ \E id \in {"a", "c"} : DeleteById(id)
    \/ DeleteByIds(<<"b", "c">>)
    \/ DeleteByFilter(KeyFilter("k1"))
    \/ GetOneById("a")
    \/ \E err \in {NoErr, SaveError} : SaverRespond(1, err)

InitOptional ==
    InitCaller(WithoutCallbacks(MaxPending), FALSE, TRUE, NoPersister, Missing,
               <<>>, <<>>)

SpecOptional == InitOptional /\ [][NextOptional]_vars

InitCompletion == InitAll(TRUE, TRUE, NoPersister, Missing, <<>>, <<>>)

SpecCompletion == InitCompletion /\ [][NextCompletion]_vars

\* the record lists users of the persister save
SavedLists ==
    { <<>>,
      <<Rec("a", "k1", "x")>>,
      <<Rec("g1", "k2", Undef), Rec(NumberOne, "k1", "x")>>,
      <<Rec(Null, "k1", "x"), Rec("a", "k1", "x"), Rec("a", "k2", "xy")>> }

\* what the path holds when the persister is made
FoundFiles ==
    {Missing, Locked, Malformed, JsonFile(<<>>),
     JsonFile(ToJson(<<Rec("a", "k1", "x")>>))}

\* new JsonFilePersister(path), with and without a path
InitPersister ==
    \E p \in {Null, DataPath}, f \in FoundFiles :
        InitAll(FALSE, FALSE, p, f, <<>>, <<>>)

\* A user of a JsonFilePersister configures it, loads and saves.
NextPersister ==
    \/ \E p \in {Null, DataPath} : PersisterConfigure(p)
    \/ PersisterLoadCall
    \/ \E list \in SavedLists : PersisterSaveCall(list)
    \/ \E list \in SavedLists : PersisterSaveNoCallback(list)
    \/ \E list \in SavedLists : PersisterSaveThrowingCallback(list)
    \/ PersisterLoadThrowingCallback

SpecPersister == InitPersister /\ [][NextPersister]_vars

\* new IdentifiableFilePersistence() configured with a path at which there
\* is no file
InitFileBacked == InitAll(TRUE, TRUE, DataPath, Missing, <<>>, <<>>)

\* The calls of a user of an IdentifiableFilePersistence whose file system
\* does not fail; the persister answers within each call, so the calls are
\* made one at a time.
NextFileBacked ==
    \/ Open
    \/ Close
    \/ \E rec \in {Rec(Null, "k1", "x"), Rec(NumberOne, "k2", "xy")} : Create(rec)
    \/ Set(Rec("a", "k1", Undef))
    \/ Update(Rec("a", "k2", "xy"))
    \/ UpdatePartially("a", [content |-> "xyz"])
    \/ \E id \in {"a", "g1"} : DeleteById(id)
    \/ DeleteByIds(<<"g1", "a">>)
    \/ DeleteByFilter(KeyFilter("k1"))
    \/ Clear
    \/ Restart

SpecFileBacked == InitFileBacked /\ [][NextFileBacked]_vars

\* the records of the Working Sets the read operations are tried on; the
\* record at position i has id PageIds[i]
PageIds == <<"p1", "p2", "p3", "p4", "p5">>
PageFields == { <<"k1", "x">>, <<"k1", "xy">>, <<"k2", "x">> }
SkipArgs == {{}} \cup {{n} : n \in {-2} \cup 0..MaxPage}
TakeArgs == {{}} \cup {{n} : n \in {-1} \cup 0..MaxPage}
PagingArgs ==
    {NullPaging} \cup
    {PagingParams(s, t, c) : s \in SkipArgs, t \in TakeArgs, c \in BOOLEAN}
FilterArgs == {NoFilter, KeyFilter("k1")}
IdsArgs == {<<>>, <<"p3", "zz", "p1", "p3">>, <<"p2">>}
SortArgs == {NoSort, ByLength, ByNegLength}

\* an instance without a Saver that holds up to MaxItems records, each
\* created with an explicit id
InitPage ==
    \E saver \in BOOLEAN, n \in 0..MaxItems : \E kc \in [1..n -> PageFields] :
        InitWith(saver, [i \in 1..n |-> Rec(PageIds[i], kc[i][1], kc[i][2])],
                 [i \in 1..n |-> i])

\* One configure call at most, and then one read.
NextPage ==
    /\ step.op \in {"init", "configure"}
    /\ \/ step.op = "init" /\ \E max \in 0..MaxPage : Configure(max)
       \/ \E f \in FilterArgs, p \in PagingArgs, s \in SortArgs :
              GetPageByFilter(f, p, s)
       \/ \E f \in FilterArgs, s \in SortArgs : GetListByFilter(f, s)
       \/ \E f \in FilterArgs : GetCountByFilter(f)
       \/ \E f \in FilterArgs : GetOneRandom(f)
       \/ \E id \in {"p2", "zz"} : GetOneById(id)
       \/ \E ids \in IdsArgs : GetListByIds(ids)
       \/ \E ids \in IdsArgs : GetListByFilter(IdsFilter(ids), NoSort)

SpecPage == InitPage /\ [][NextPage]_vars

\* the records callers pass when they leave the id to the generator
GeneratedInputs ==
    { Rec(Null, "k1", "x"), Rec(Undef, "k2", "xy"), Rec(Null, "k2", "xyz"),
      Rec(Undef, "k1", Undef) }

\* an instance with or without a Saver, nothing stored
InitGenerated == \E saver \in BOOLEAN : InitWith(saver, <<>>, <<>>)

\* Only create and set calls, all of records without an id.
NextGenerated ==
    \/ \E rec \in GeneratedInputs : Create(rec)
    \/ \E rec \in GeneratedInputs : Set(rec)
    \/ \E i \in 1..MaxPending, err \in {NoErr, SaveError} : SaverRespond(i, err)

SpecGenerated == InitGenerated /\ [][NextGenerated]_vars

----------------------------------------------------------------------------
(* Properties *)

\* no two records of the sequence ws share an id that is not null
NoSharedId(ws) ==
    \A i, j \in 1..Len(ws) :
        (i # j /\ ~IsNullish(ws[i].id)) => ws[i].id # ws[j].id

\* I1 in the current state
I1 == NoSharedId(WorkingSet)

\* C1 (P1): under SpecGenerated, where every create and set call leaves the
\* id to the generator, no two records of the Working Set share an id and
\* no stored id is null or undefined.
C1_GeneratedIdsUnique ==
    /\ \A i \in 1..Len(WorkingSet) : ~IsNullish(WorkingSet[i].id)
    /\ \A i, j \in 1..Len(WorkingSet) :
          i # j => WorkingSet[i].id # WorkingSet[j].id

\* C1 witness: a set call has completed and the Working Set holds as many
\* records as the generator has ids.
C1_Witness ==
    /\ res.op = "set"
    /\ Len(WorkingSet) = MaxGen
    /\ WorkingSet[1].id # WorkingSet[MaxGen].id

\* C2 as claimed: I1 holds in every state the public operations reach.
C2_I1Always == I1

\* the calls that keep I1: all but a create with an id some stored record
\* has and an updatePartially whose field map names the id
KeepsI1(s, ws) ==
    \/ s.op \in {"set", "update", "deleteById", "deleteByIds", "clear"}
    \/ s.op = "updatePartially" /\ "id" \notin DOMAIN s.arg[2]
    \/ /\ s.op = "create"
       /\ IsNullish(s.arg.id) \/ \A i \in 1..Len(ws) : ws[i].id # s.arg.id

\* C2 amended: a call of set, update, deleteById, deleteByIds, clear, of
\* updatePartially with a field map without an id entry, or of create with
\* a null/absent id or an id no stored record has, keeps I1: if no two
\* records share a non-null id before the call, none do after it.
C2_I1Preserved ==
    [][(I1 /\ KeepsI1(step', WorkingSet)) => I1']_vars

\* C2 witness: an update has replaced a record of a Working Set of three
\* records with pairwise different ids.
C2_Witness ==
    /\ step.op = "update"
    /\ res.item # 0
    /\ Len(WorkingSet) = 3
    /\ I1
    /\ \A i \in 1..3 : ~IsNullish(WorkingSet[i].id)

\* C3 (I2): a write of the caller to a record it holds (one a callback
\* handed to it, or its own input) leaves the Working Set as it is.
C3_WritesLeaveWorkingSet ==
    [][step'.op = "write" => WorkingSet' = WorkingSet]_vars

\* the record getOneById(id) hands out in the current state, as a value
\* (Undef fields when it hands out null)
Found(id) ==
    LET r == OneById(objs, arrs[items], id)
    IN  IF r = 0 THEN Rec(Undef, Undef, Undef) ELSE objs[r]

\* create(r) has just completed and getOneById(returned.id) returns a
\* record with r's fields, and r's id if r has one
RoundTrip ==
    LET r   == step.arg
        got == Found(objs[res.item].id)
    IN  /\ OneById(objs, arrs[items], objs[res.item].id) # 0
        /\ got.key = r.key
        /\ got.content = r.content
        /\ ~IsNullish(r.id) => got.id = r.id
        /\ ~IsNullish(got.id)

\* C4 as claimed: the round trip holds for every record r.
C4_RoundTripAlways == step.op = "create" => RoundTrip

\* C4 amended (P2): for every record r whose id is null/absent or is not
\* == the id of a record already stored, create(r) followed by
\* getOneById(returned.id) returns a record equal to r in every field
\* except a generated id; an explicit id is kept.
C4_RoundTrip ==
    (/\ step.op = "create"
     /\ \/ IsNullish(step.arg.id)
        \/ \A i \in 1..(Len(WorkingSet) - 1) :
              ~LooseEq(WorkingSet[i].id, step.arg.id))
    => RoundTrip

\* C4 witness: a create of a record with an explicit id and one without a
\* content field has completed in a Working Set that held records already.
C4_Witness ==
    /\ step.op = "create"
    /\ step.arg = Rec("a", "k1", Undef)
    /\ Len(WorkingSet) = 3
    /\ \A i \in 1..2 : WorkingSet[i].id # "a"

----------------------------------------------------------------------------
(* Properties of the read operations, stated without the operators the
   operations are modelled with *)

\* the records the last read handed out as a list, in order
Returned == Values(objs, arrs, res.list)

\* the positions of the Working Set a filter accepts, and their number
Accepted(f) == {i \in 1..Len(WorkingSet) : Matches(f, WorkingSet[i])}
FilteredSize(f) == Cardinality(Accepted(f))

Max2(a, b) == IF a > b THEN a ELSE b
Min2(a, b) == IF a < b THEN a ELSE b

\* a page request of the last getPageByFilter call: its arguments
PageCall == step.op = "getPageByFilter"
PageFilter == step.arg[1]
PagePaging == step.arg[2]
PageSort == step.arg[3]

\* the skip and take a paging argument carries, as sets ({} when absent)
SkipOf(p) == IF p = NullPaging THEN {} ELSE p.skip
TakeOf(p) == IF p = NullPaging THEN {} ELSE p.take

\* the position the sub-range starts behind: skip, 0 when absent or negative
StartOf(p) == IF SkipOf(p) = {} THEN 0 ELSE Max2(0, Min(SkipOf(p)))

\* C5 as claimed: a page request with skip s >= 0 and take t >= 0 returns
\* exactly min(t, max(0, N - s)) records, whatever max_page_size is.
C5_PageLengthAsClaimed ==
    (/\ PageCall
     /\ \E sk \in SkipOf(PagePaging) : sk >= 0
     /\ \E tk \in TakeOf(PagePaging) : tk >= 0)
    => Len(Returned) =
         Min2(Min(TakeOf(PagePaging)),
              Max2(0, FilteredSize(PageFilter) - Min(SkipOf(PagePaging))))

\* C5 amended (P4): for a Working Set of filtered size N, a max_page_size
\* m >= 0 and a page request with skip s >= 0 and take t >= 0,
\* getPageByFilter returns exactly min(t, m, max(0, N - s)) records.
C5_PageLength ==
    (/\ PageCall
     /\ \E sk \in SkipOf(PagePaging) : sk >= 0
     /\ \E tk \in TakeOf(PagePaging) : tk >= 0)
    => Len(Returned) =
         Min2(Min2(Min(TakeOf(PagePaging)), maxPageSize),
              Max2(0, FilteredSize(PageFilter) - Min(SkipOf(PagePaging))))

\* C5 witness: a request for three records from the start of three stored
\* ones, answered with the two that max_page_size allows.
C5_Witness ==
    /\ PageCall
    /\ SkipOf(PagePaging) = {0}
    /\ TakeOf(PagePaging) = {3}
    /\ maxPageSize = 2
    /\ FilteredSize(PageFilter) = 3
    /\ Len(Returned) = 2

\* C6: getPageByFilter returns at most max_page_size records for every
\* request (any skip, any take, no paging argument), and a request without
\* a take returns min(max_page_size, records left behind skip) records.
C6_MaxPageSizeBounds ==
    PageCall =>
        /\ Len(Returned) <= maxPageSize
        /\ TakeOf(PagePaging) = {} =>
              Len(Returned) =
                Min2(maxPageSize,
                     Max2(0, FilteredSize(PageFilter) - StartOf(PagePaging)))

\* C6 witness: a call without a paging argument on three records with
\* max_page_size 1 has returned one record.
C6_Witness ==
    /\ PageCall
    /\ PagePaging = NullPaging
    /\ maxPageSize = 1
    /\ FilteredSize(PageFilter) = 3
    /\ Len(Returned) = 1

\* C7: the total of a page is the size of the filtered Working Set when the
\* paging argument asks for it, whatever skip, take, sort and max_page_size
\* are, and null when it does not; getCountByFilter returns that same size.
C7_PageTotal ==
    /\ PageCall =>
          res.total =
            IF PagePaging # NullPaging /\ PagePaging.total
            THEN {FilteredSize(PageFilter)} ELSE {}
    /\ step.op = "getCountByFilter" => res.count = {FilteredSize(step.arg)}

\* C7 witness: a page of one record out of two accepted among three
\* stored, with the total 2.
C7_Witness ==
    /\ PageCall
    /\ PagePaging # NullPaging /\ PagePaging.total
    /\ Len(WorkingSet) = 3
    /\ FilteredSize(PageFilter) = 2
    /\ Len(Returned) = 1
    /\ res.total = {2}

\* position p comes before position q in the filtered-then-sorted sequence
Before(sort, p, q) ==
    IF IsFunction(sort) /\ SortKey(sort, WorkingSet[p]) # SortKey(sort, WorkingSet[q])
    THEN SortKey(sort, WorkingSet[p]) < SortKey(sort, WorkingSet[q])
    ELSE p < q

\* the filtered-then-sorted sequence, as Working Set positions
Expected(f, sort) ==
    [k \in 1..FilteredSize(f) |->
        CHOOSE p \in Accepted(f) :
            Cardinality({q \in Accepted(f) : Before(sort, q, p)}) = k - 1]

\* the records at the positions e[from + 1], e[from + 2], ... are the
\* returned ones
IsRangeOf(e, from) ==
    /\ Len(Returned) > 0 => from + Len(Returned) <= Len(e)
    /\ \A k \in 1..Len(Returned) : Returned[k] = WorkingSet[e[from + k]]

\* C8: the page of getPageByFilter is the contiguous sub-range that starts
\* at position skip (0 when absent or negative) of the Working Set first
\* filtered and then sorted, in that order; getListByFilter returns the
\* whole filtered-then-sorted sequence.
C8_PageContent ==
    /\ PageCall =>
          IsRangeOf(Expected(PageFilter, PageSort), StartOf(PagePaging))
    /\ step.op = "getListByFilter" =>
          /\ Len(Returned) = FilteredSize(step.arg[1])
          /\ IsRangeOf(Expected(step.arg[1], step.arg[2]), 0)

\* C8 witness: a filtered and sorted page that starts behind the first
\* record of the sequence and whose first record is the first one stored.
C8_Witness ==
    /\ PageCall
    /\ IsFunction(PageFilter) /\ IsFunction(PageSort)
    /\ SkipOf(PagePaging) = {1}
    /\ Len(WorkingSet) = 3
    /\ Len(Returned) = 1
    /\ Returned[1] = WorkingSet[1]

\* the Working Set position of a returned record
PositionOf(rec) == CHOOSE i \in 1..Len(WorkingSet) : WorkingSet[i] = rec

\* C9 (P6): with a sort key, adjacent records of the result of
\* getPageByFilter and getListByFilter are in non-decreasing order of the
\* key (the key minus the length gives non-increasing lengths), and records
\* with equal keys keep their Working Set order.
C9_SortOrder ==
    LET sort == IF PageCall THEN PageSort ELSE step.arg[2]
    IN  (step.op \in {"getPageByFilter", "getListByFilter"} /\ IsFunction(sort))
        => \A k \in 1..(Len(Returned) - 1) :
              /\ SortKey(sort, Returned[k]) <= SortKey(sort, Returned[k + 1])
              /\ sort = ByNegLength =>
                    ContentLength(Returned[k].content)
                        >= ContentLength(Returned[k + 1].content)
              /\ SortKey(sort, Returned[k]) = SortKey(sort, Returned[k + 1])
                    => PositionOf(Returned[k]) < PositionOf(Returned[k + 1])

\* C9 witness: a list sorted by minus the length: three records, the
\* longest stored last and returned first, the two others of equal length.
C9_Witness ==
    /\ step.op = "getListByFilter"
    /\ step.arg[2] = ByNegLength
    /\ Len(Returned) = 3
    /\ Returned[1] = WorkingSet[3]
    /\ Returned[2].content = Returned[3].content

----------------------------------------------------------------------------
(* Properties of saving *)

\* some record of ws has the id
HasId(ws, id) == \E i \in 1..Len(ws) : ws[i].id = id

\* the call of step s changes the Working Set ws: create, set and clear
\* always, update, updatePartially and deleteById when the id is found,
\* deleteByFilter/deleteByIds when a record matches
Mutates(s, ws) ==
    \/ s.op \in {"create", "set", "clear"}
    \/ s.op = "update" /\ HasId(ws, s.arg.id)
    \/ s.op = "updatePartially" /\ HasId(ws, s.arg[1])
    \/ s.op = "deleteById" /\ HasId(ws, s.arg)
    \/ s.op = "deleteByIds" /\ \E k \in 1..Len(s.arg) : HasId(ws, s.arg[k])

\* C10 (I3): with a Saver attached, a call that changes the Working Set
\* invokes the Saver exactly once, after the change and with the entire
\* Working Set including it, and does not call back; the caller's callback
\* for that call runs only in the step in which the Saver reports its
\* outcome.
C10_SaveBeforeSuccess ==
    [][/\ Mutates(step', WorkingSet) =>
            /\ step'.nsave = 1
            /\ step'.ncb = 0
            /\ Len(pending') = Len(pending) + 1
            /\ pending'[Len(pending')].op = step'.op
            /\ pending'[Len(pending')].data = WorkingSet'
            /\ step'.op = "create" => Len(WorkingSet') = Len(WorkingSet) + 1
            /\ step'.op = "deleteById" => Len(WorkingSet') = Len(WorkingSet) - 1
            /\ step'.op = "clear" => WorkingSet' = <<>>
       /\ step'.op = "saverDone" =>
            /\ step'.ncb = 1
            /\ Len(pending') = Len(pending) - 1
            /\ \E i \in 1..Len(pending) : res'.op = pending[i].op
      ]_vars

\* C10 witness: deleteById has removed a record and handed the remaining
\* Working Set to the Saver, which has not answered yet.
C10_Witness ==
    /\ hasSaver
    /\ step.op = "deleteById"
    /\ step.nsave = 1 /\ step.ncb = 0
    /\ Len(pending) = 1
    /\ Len(WorkingSet) = 1
    /\ pending[1].data = WorkingSet
    /\ store # WorkingSet

\* C11: with a Saver that never fails and calls issued one at a time, the
\* list the Saver accepted last equals the Working Set (same records, same
\* order) whenever a call has completed and none is in progress.
C11_NoDirtyUnsaved == pending = <<>> => store = WorkingSet

\* C11 witness: a deleteByFilter call has completed through the Saver and
\* the saved list is the Working Set that is left, which is not empty.
C11_Witness ==
    /\ step.op = "saverDone"
    /\ res.op = "deleteByFilter"
    /\ pending = <<>>
    /\ Len(WorkingSet) >= 1
    /\ store = WorkingSet

\* C12: when the Saver reports a failure, the caller's callback gets
\* exactly that error, the Working Set stays as the call left it (the list
\* handed to the Saver, nothing rolled back), and nothing else of the
\* instance changes, so later operations work on that Working Set.
C12_SaveFailureSurfaced ==
    [][(step'.op = "saverDone" /\ step'.arg[2] # NoErr) =>
          /\ res'.err = step'.arg[2]
          /\ res'.op = step'.arg[1]
          /\ WorkingSet' = WorkingSet
          /\ WorkingSet' = pending[1].data
          /\ store' = store
          /\ maxPageSize' = maxPageSize /\ hasSaver' = hasSaver
          /\ pending' = <<>>
      ]_vars

\* C12 witness: the Saver has failed a create and a later set, the caller
\* was told of the error, and the Working Set holds both records while
\* the Saver has accepted none.
C12_Witness ==
    /\ step.op = "saverDone"
    /\ step.arg = <<"set", SaveError>>
    /\ res.err = SaveError
    /\ Len(WorkingSet) = 2
    /\ store = <<>>

\* C13 (Scenario B): update with a record whose id no stored record has,
\* and updatePartially with such an id, complete at once with no error and
\* a null item, leave the Working Set as it is and do not call the Saver.
C13_NotFoundOnUpdate ==
    [][\/ step'.op = "update" /\ ~HasId(WorkingSet, step'.arg.id)
       \/ step'.op = "updatePartially" /\ ~HasId(WorkingSet, step'.arg[1])
       => /\ step'.ncb = 1
          /\ step'.nsave = 0
          /\ res'.op = step'.op
          /\ res'.err = NoErr
          /\ res'.item = 0
          /\ WorkingSet' = WorkingSet
          /\ pending' = pending
          /\ store' = store
      ]_vars

\* C13 witness: an update that found no record with its id has completed
\* with a null item on a Working Set that holds a record.
C13_Witness ==
    /\ hasSaver
    /\ step.op = "update"
    /\ ~HasId(WorkingSet, step.arg.id)
    /\ Len(WorkingSet) = 1
    /\ res.op = "update" /\ res.item = 0 /\ res.err = NoErr
    /\ step.nsave = 0

----------------------------------------------------------------------------
(* Properties of the single operations *)

\* the first position of ws whose record has the id
FirstWithId(ws, id) == Min({i \in 1..Len(ws) : ws[i].id = id})

\* ws2 is ws1 with the record at position i replaced by rec
ReplacedAt(ws1, ws2, i, rec) ==
    /\ Len(ws2) = Len(ws1)
    /\ ws2[i] = rec
    /\ \A j \in 1..Len(ws1) : j # i => ws2[j] = ws1[j]

\* ws2 is ws1 without the record at position i
RemovedAt(ws1, ws2, i) ==
    /\ Len(ws2) = Len(ws1) - 1
    /\ \A j \in 1..Len(ws2) : ws2[j] = IF j < i THEN ws1[j] ELSE ws1[j + 1]

\* the record getOneById(id) hands out on the heap oh and the list, as a
\* value (Undef fields when it hands out null)
FoundIn(oh, list, id) ==
    LET r == OneById(oh, list, id)
    IN  IF r = 0 THEN Rec(Undef, Undef, Undef) ELSE oh[r]

\* the record the callback of the last call was handed
ReturnedItem == objs[res.item]

\* C14: update(record) with an id some stored record has replaces the
\* first such record by the argument at the same position: every field is
\* the argument's (a field the argument lacks is lost), the size and all
\* other records are unchanged, and the returned item equals the argument.
C14_UpdateReplaces ==
    [][(step'.op = "update" /\ HasId(WorkingSet, step'.arg.id)) =>
          /\ ReplacedAt(WorkingSet, WorkingSet',
                        FirstWithId(WorkingSet, step'.arg.id), step'.arg)
          /\ res'.err = NoErr
          /\ res'.item # 0
          /\ ReturnedItem' = step'.arg
      ]_vars

\* C14 witness: an update with a record without a content field has
\* replaced the second of three records, which now has no content.
C14_Witness ==
    /\ step.op = "update"
    /\ step.arg = Rec("a", "k1", Undef)
    /\ Len(WorkingSet) = 3
    /\ WorkingSet[1].id # "a"
    /\ WorkingSet[2] = step.arg
    /\ res.item # 0

\* the number of records of ws whose id is == id
CountOfId(ws, id) ==
    Cardinality({i \in 1..Len(ws) : LooseEq(ws[i].id, id)})

\* rec2 is rec1 with the entries of the field map written over it
Merged(rec1, rec2, data) ==
    \A f \in Fields :
        rec2[f] = IF f \in DOMAIN data THEN data[f] ELSE rec1[f]

\* the effect of updatePartially on the Working Set and its result
PartialUpdate ==
    LET i == FirstWithId(WorkingSet, step'.arg[1])
    IN  /\ ReplacedAt(WorkingSet, WorkingSet', i, WorkingSet'[i])
        /\ Merged(WorkingSet[i], WorkingSet'[i], step'.arg[2])
        /\ res'.err = NoErr
        /\ res'.item # 0
        /\ ReturnedItem' = WorkingSet'[i]

C16_SetUpserts ==
    [][step'.op = "set" =>
          /\ res'.err = NoErr
          /\ res'.item # 0
          /\ ~IsNullish(ReturnedItem'.id)
          /\ ~IsNullish(step'.arg.id) => ReturnedItem'.id = step'.arg.id
          /\ ReturnedItem'.key = step'.arg.key
          /\ ReturnedItem'.content = step'.arg.content
          /\ IF HasId(WorkingSet, ReturnedItem'.id)
             THEN ReplacedAt(WorkingSet, WorkingSet',
                             FirstWithId(WorkingSet, ReturnedItem'.id),
                             ReturnedItem')
             ELSE WorkingSet' = Append(WorkingSet, ReturnedItem')
          /\ FoundIn(objs', arrs'[items'], ReturnedItem'.id) = ReturnedItem'
      ]_vars

\* C17: every create call, with or without an explicit id and whether or
\* not a stored record has that id, makes the Working Set one record
\* longer, puts the new record last and leaves the records stored before
\* and their order unchanged.
C17_CreateAppends ==
    [][step'.op = "create" =>
          /\ Len(WorkingSet') = Len(WorkingSet) + 1
          /\ SubSeq(WorkingSet', 1, Len(WorkingSet)) = WorkingSet
          /\ WorkingSet'[Len(WorkingSet')].key = step'.arg.key
          /\ WorkingSet'[Len(WorkingSet')].content = step'.arg.content
          /\ ~IsNullish(step'.arg.id) =>
                WorkingSet'[Len(WorkingSet')].id = step'.arg.id
          /\ ReturnedItem' = WorkingSet'[Len(WorkingSet')]
      ]_vars

\* C17 witness: a create with an id that a stored record has already has
\* appended a third record behind that one.
C17_Witness ==
    /\ step.op = "create"
    /\ step.arg.id = "a"
    /\ Len(WorkingSet) = 3
    /\ WorkingSet[1].id = "a"
    /\ WorkingSet[1] # WorkingSet[3]
    /\ WorkingSet[3] = step.arg

\* C18 (P5): deleteById with an id no stored record has completes at once
\* with no error and a null item, leaves the Working Set as it is and does
\* not call the Saver, each time it is called.
C18_DeleteAbsent ==
    [][(step'.op = "deleteById" /\ ~HasId(WorkingSet, step'.arg)) =>
          /\ step'.ncb = 1
          /\ step'.nsave = 0
          /\ res'.op = "deleteById"
          /\ res'.err = NoErr
          /\ res'.item = 0
          /\ WorkingSet' = WorkingSet
          /\ pending' = pending
          /\ store' = store
      ]_vars

\* C18 witness: a deleteById of an absent id has completed with a null
\* item right after another one, on a Working Set of two records.
C18_Witness ==
    /\ hasSaver
    /\ step.op = "deleteById"
    /\ ~HasId(WorkingSet, step.arg)
    /\ res.op = "deleteById" /\ res.item = 0 /\ res.err = NoErr
    /\ Len(WorkingSet) = 2
    /\ store = WorkingSet

\* C19: deleteById with an id some stored record has removes the first
\* such record and returns it with the field values it had in the Working
\* Set; the size shrinks by one and all other records keep their values
\* and order.
C19_DeleteRemovesOne ==
    [][(step'.op = "deleteById" /\ HasId(WorkingSet, step'.arg)) =>
          LET i == FirstWithId(WorkingSet, step'.arg)
          IN  /\ RemovedAt(WorkingSet, WorkingSet', i)
              /\ res'.err = NoErr
              /\ res'.item # 0
              /\ ReturnedItem' = WorkingSet[i]
      ]_vars

\* C19 witness: deleteById has removed the first of two records with the
\* same id, one that updatePartially had changed, and the other one is
\* still stored.
C19_Witness ==
    /\ step.op = "deleteById"
    /\ step.arg = "a"
    /\ res.item # 0
    /\ ReturnedItem.content = "xyz"
    /\ Len(WorkingSet) = 2
    /\ HasId(WorkingSet, "a")

\* getOneById(id) hands out null in the current state
Absent(id) == OneById(objs, arrs[items], id) = 0

\* the reads of the delete scenario give what the Working Set holds:
\* getOneById null for an id no record has, getCountByFilter the size
ReadsShowWorkingSet ==
    /\ (step'.op = "getOneById" /\ CountOfId(WorkingSet, step'.arg) = 0)
          => res'.item = 0
    /\ step'.op = "getCountByFilter" => res'.count = {Len(WorkingSet)}
    /\ step'.op \in {"getOneById", "getCountByFilter"}
          => WorkingSet' = WorkingSet

\* C20 as claimed: after deleteById(id) on an existing record,
\* getOneById(id) returns null until a create or set stores the id again,
\* and the count is one less than before.
C20_DeleteThenReadAsClaimed ==
    [][/\ (step'.op = "deleteById" /\ HasId(WorkingSet, step'.arg)) =>
             /\ OneById(objs', arrs'[items'], step'.arg) = 0
             /\ Len(WorkingSet') = Len(WorkingSet) - 1
       /\ \A id \in {"a", "g1"} :
             (Absent(id) /\ step'.op \notin {"create", "set"}) => Absent(id)'
       /\ ReadsShowWorkingSet
      ]_vars

\* C20 amended (Scenario D): after deleteById(id) on the only record whose
\* id is == id has completed, getOneById(id) returns null until a later
\* create, set or updatePartially stores that id again, and
\* getCountByFilter with no filter is one less than before the delete.
C20_DeleteThenRead ==
    [][/\ (/\ step'.op = "deleteById"
           /\ HasId(WorkingSet, step'.arg)
           /\ CountOfId(WorkingSet, step'.arg) = 1) =>
             /\ OneById(objs', arrs'[items'], step'.arg) = 0
             /\ Len(WorkingSet') = Len(WorkingSet) - 1
       /\ \A id \in {"a", "g1"} :
             (Absent(id) /\ step'.op \notin {"create", "set", "updatePartially"})
                => Absent(id)'
       /\ ReadsShowWorkingSet
      ]_vars

\* C20 witness: deleteById has removed and returned the only record with
\* the id; two records are left and getOneById of the id gives null.
C20_Witness ==
    /\ step.op = "deleteById"
    /\ step.arg = "a"
    /\ res.item # 0
    /\ ReturnedItem.id = "a"
    /\ Absent("a")
    /\ Len(WorkingSet) = 2

\* the records of ws that p holds of, in their order in ws
Those(ws, p(_)) == SelectSeq(ws, p)

\* the filter of the last deleteByFilter or deleteByIds call
DeleteFilter(s) == IF s.op = "deleteByIds" THEN IdsFilter(s.arg) ELSE s.arg

\* C21: after deleteByFilter(p) the Working Set is the subsequence of the
\* previous one whose records do not satisfy p, in their previous order;
\* the Saver is invoked once, with that Working Set, if a record was
\* removed, and otherwise not at all, the call completing without error.
C21_DeleteByFilter ==
    [][step'.op \in {"deleteByFilter", "deleteByIds"} =>
          /\ WorkingSet' =
                Those(WorkingSet, LAMBDA r : ~Matches(DeleteFilter(step'), r))
          /\ IF \E i \in 1..Len(WorkingSet) :
                    Matches(DeleteFilter(step'), WorkingSet[i])
             THEN /\ step'.nsave = 1
                  /\ Len(pending') = Len(pending) + 1
                  /\ pending'[Len(pending')].data = WorkingSet'
             ELSE /\ step'.nsave = 0
                  /\ step'.ncb = 1
                  /\ res'.err = NoErr
                  /\ pending' = pending
      ]_vars

\* C21 witness: deleteByFilter has removed the first two, adjacent,
\* records of three and the Saver has been handed the one that is left.
C21_Witness ==
    /\ step.op = "deleteByFilter"
    /\ step.nsave = 1
    /\ Len(store) = 3
    /\ Matches(step.arg, store[1]) /\ Matches(step.arg, store[2])
    /\ WorkingSet = <<store[3]>>
    /\ pending[1].data = WorkingSet

\* C22: getListByIds(ids) returns the records of the Working Set whose id
\* is a member of ids, each once, in Working Set order, whatever the order
\* and the repetitions of ids; getListByFilter with the membership
\* predicate and no sort returns the same list.
C22_ListByIds ==
    /\ step.op = "getListByIds" =>
          Returned =
            Those(WorkingSet,
                  LAMBDA r : \E k \in 1..Len(step.arg) : step.arg[k] = r.id)
    /\ (/\ step.op = "getListByFilter"
        /\ step.arg[1].kind = "ids"
        /\ step.arg[2] = NoSort) =>
          Returned =
            Those(WorkingSet,
                  LAMBDA r : \E k \in 1..Len(step.arg[1].val) :
                                 step.arg[1].val[k] = r.id)

\* C22 witness: ids names the third record before the first, the third
\* twice and an id that is not stored; the first and the third record are
\* returned in Working Set order.
C22_Witness ==
    /\ step.op = "getListByIds"
    /\ step.arg = <<"p3", "zz", "p1", "p3">>
    /\ Len(WorkingSet) = 3
    /\ Returned = <<WorkingSet[1], WorkingSet[3]>>

\* what the Saver has been asked to save and has not answered yet
Requests(pd) == [i \in 1..Len(pd) |-> [op |-> pd[i].op, data |-> pd[i].data]]

\* C24 (I4): getPageByFilter, getListByFilter, getCountByFilter,
\* getOneRandom, getOneById and getListByIds leave the Working Set as it is
\* (records, order, field values), invoke neither the Saver nor the Loader
\* and complete at once without error, for every filter, sort key and
\* paging.
C24_ReadsHaveNoEffect ==
    [][step'.op \in {"getPageByFilter", "getListByFilter", "getCountByFilter",
                     "getOneRandom", "getOneById", "getListByIds"} =>
          /\ WorkingSet' = WorkingSet
          /\ step'.nsave = 0
          /\ Requests(pending') = Requests(pending)
          /\ store' = store
          /\ loading' = loading
          /\ file' = file
          /\ opened' = opened
          /\ step'.ncb = 1
          /\ res'.op = step'.op
          /\ res'.err = NoErr
      ]_vars

\* C24 witness: with a Saver attached, a sorted list has been returned
\* whose order differs from the order of the Working Set.
C24_Witness ==
    /\ hasSaver
    /\ step.op = "getListByFilter"
    /\ IsFunction(step.arg[2])
    /\ Len(WorkingSet) = 3
    /\ Len(Returned) = 3
    /\ Returned # WorkingSet

\* C23 (violated when an id of ids is == but not === the id of a record):
\* after deleteByIds(ids) has completed, getListByIds(ids) returns an
\* empty list and getOneById(i) returns null for every i in ids, also when
\* several records had the same id, and the records whose id is not in ids
\* are all still present, in their order.
C23_BatchDeleteThenRead ==
    [][step'.op = "deleteByIds" =>
          /\ Filter(objs', arrs'[items'], IdsFilter(step'.arg)) = <<>>
          /\ \A k \in 1..Len(step'.arg) :
                OneById(objs', arrs'[items'], step'.arg[k]) = 0
          /\ WorkingSet' =
                Those(WorkingSet,
                      LAMBDA r : \A k \in 1..Len(step'.arg) : step'.arg[k] # r.id)
      ]_vars

\* the step in which the callback of an open call runs
OpenCompletes ==
    /\ step.ncb = 1
    /\ step.op \in {"open", "loaderDone"}

\* the step in which the callback of a close call runs
CloseCompletes ==
    /\ step.ncb = 1
    /\ \/ step.op = "close"
       \/ step.op = "saverDone" /\ step.arg[1] = "close"

\* C25: isOpen is false at construction; it is true after an open call has
\* completed, whether the Loader succeeded, failed or is not attached; it
\* does not become true in any other step, so not before the Loader has
\* responded; and it becomes false only when a close call completes.
C25_OpenFlag ==
    /\ ~IsOpen
    /\ [][/\ OpenCompletes' => IsOpen'
          /\ (~IsOpen /\ IsOpen') => OpenCompletes'
          /\ (IsOpen /\ ~IsOpen') => CloseCompletes'
          /\ (step'.op = "open" /\ step'.ncb = 0) => IsOpen' = IsOpen
         ]_vars

\* C25 witness: the Loader has answered an open call with an error and the
\* instance is open.
C25_Witness ==
    /\ step.op = "loaderDone"
    /\ step.arg[1] = LoadError
    /\ res.op = "open"
    /\ res.err = LoadError
    /\ IsOpen

\* C26: when the Loader succeeds the Working Set after open is the loaded
\* list and open completes without error; when it fails open completes
\* with the Loader's error and the Working Set is unchanged; without a
\* Loader open completes at once without error and the Working Set is
\* unchanged; asking the Loader changes nothing.
C26_OpenLoads ==
    [][/\ step'.op = "loaderDone" =>
             /\ res'.op = "open"
             /\ res'.err = step'.arg[1]
             /\ WorkingSet' =
                   IF step'.arg[1] = NoErr THEN step'.arg[2] ELSE WorkingSet
       /\ step'.op = "open" =>
             /\ WorkingSet' = WorkingSet
             /\ IF hasLoader
                THEN step'.ncb = 0 /\ res' = res /\ loading' = loading + 1
                ELSE step'.ncb = 1 /\ res'.op = "open" /\ res'.err = NoErr
      ]_vars

\* C26 witness: a record was created before, and the Working Set is the
\* list of one record that the Loader has handed over.
C26_Witness ==
    /\ step.op = "loaderDone"
    /\ step.arg = <<NoErr, <<Rec("a", "k1", "x")>>>>
    /\ nextId > 0
    /\ WorkingSet = <<Rec("a", "k1", "x")>>
    /\ res.err = NoErr

\* C27: close hands the entire Working Set to the Saver once, whatever was
\* saved before; when close completes isOpen is false and the caller has
\* the Saver's outcome, error or not; neither step changes the Working
\* Set; without a Saver close and save complete at once without error.
C27_Close ==
    [][/\ step'.op \in {"close", "save"} =>
             /\ WorkingSet' = WorkingSet
             /\ IF hasSaver
                THEN /\ step'.nsave = 1
                     /\ step'.ncb = 0
                     /\ Len(pending') = Len(pending) + 1
                     /\ pending'[Len(pending')].op = step'.op
                     /\ pending'[Len(pending')].data = WorkingSet
                     /\ SubSeq(Requests(pending'), 1, Len(pending))
                           = Requests(pending)
                ELSE /\ step'.nsave = 0
                     /\ step'.ncb = 1
                     /\ res'.op = step'.op
                     /\ res'.err = NoErr
       /\ CloseCompletes' => ~IsOpen'
       /\ (step'.op = "saverDone" /\ step'.arg[1] = "close") =>
             /\ WorkingSet' = WorkingSet
             /\ res'.op = "close"
             /\ res'.err = step'.arg[2]
      ]_vars

\* C27 witness: the Saver has failed the save of a close call on an open
\* instance whose Working Set it had saved before; the instance is closed
\* and the caller has the error.
C27_Witness ==
    /\ step.op = "saverDone"
    /\ step.arg = <<"close", SaveError>>
    /\ res.err = SaveError
    /\ ~IsOpen
    /\ WorkingSet # <<>>
    /\ store = WorkingSet

\* C28: a new instance configured with the path of an instance whose calls
\* have written the file, and opened, opens without error and has a Working
\* Set equal to the Working Set of that instance: same records, same
\* order, same field values.
C28_RestartDurability ==
    [][step'.op = "restart" =>
          /\ res'.err = NoErr
          /\ WorkingSet' = WorkingSet
          /\ IsOpen'
      ]_vars

\* C28 witness: the new instance has two records, one with a number as id
\* and one without a content field, and one id was generated.
C28_Witness ==
    /\ step.op = "restart"
    /\ Len(WorkingSet) = 2
    /\ \E i \in 1..2 : WorkingSet[i] = Rec("a", "k1", Undef)
    /\ \E i \in 1..2 : WorkingSet[i].id = NumberOne
    /\ nextId > 0
    /\ IsOpen

\* the list the callback of the last load received
Delivered == Values(objs, arrs, res.list)

\* C29 (violated for a file whose text is no JSON): without a path load
\* fails with a configuration error and delivers no list; with a path and
\* no file it succeeds with an empty list; with a file that cannot be read
\* or whose text cannot be deserialized it fails with a read failure; and
\* load leaves the file as it is.
C29_LoadOutcomes ==
    [][step'.op = "load" =>
          /\ file' = file
          /\ IsNullish(path) =>
                res'.err = NoPath /\ res'.list = 0
          /\ (~IsNullish(path) /\ file = Missing) =>
                res'.err = NoErr /\ res'.list # 0 /\ Delivered' = <<>>
          /\ (~IsNullish(path) /\ file \in {Locked, Malformed}) =>
                res'.err = ReadFailed /\ res'.list = 0
      ]_vars

\* C30 (Scenario E): a load that follows a successful save(L) on the same
\* path succeeds and yields a list equal to L, same records in the same
\* order, whatever the file held before that save.
C30_FileRoundTrip ==
    [][(step'.op = "load" /\ step.op = "save" /\ res.err = NoErr) =>
          /\ res'.err = NoErr
          /\ res'.list # 0
          /\ Delivered' = step.arg
      ]_vars

\* C30 witness: load has yielded the list of three records, which only a
\* save can have written, and the file holds nothing else.
C30_Witness ==
    /\ step.op = "load"
    /\ res.err = NoErr
    /\ res.list # 0
    /\ Len(Delivered) = 3
    /\ Delivered[1].id = Null
    /\ file = JsonFile(ToJson(Delivered))

\* C31: a save of the File Persister that cannot write the file, because
\* the write fails or no path is configured, leaves the file as it is and
\* never reports success: a callback receives a write failure, and
\* without a callback the write failure is thrown to the caller.
C31_SaveFailures ==
    [][(/\ step'.op \in {"save", "saveNoCallback"}
        /\ (IsNullish(path) \/ file = Locked)) =>
          /\ file' = file
          /\ res'.err = WriteFailed
          /\ IF step'.op = "save"
             THEN res'.op = "save" /\ step'.ncb = 1
             ELSE res'.op = "thrown" /\ step'.ncb = 0
      ]_vars

\* C31 witness: a save without a callback on a persister without a path
\* has thrown the write failure and the file is what it was.
C31_Witness ==
    /\ step.op = "saveNoCallback"
    /\ Len(step.arg) = 3
    /\ IsNullish(path)
    /\ res.op = "thrown"
    /\ res.err = WriteFailed
    /\ file = JsonFile(ToJson(<<Rec("a", "k1", "x")>>))

\* C32 (violated for the list getListByFilter returns without filter and
\* sort key, for the list the Saver is given and for the list the Loader
\* has delivered): when the caller, the Saver or the Loader adds, removes
\* or replaces an element of a list it received, the Working Set stays as
\* it is.
C32_ExclusiveOwnership ==
    [][step'.op = "listWrite" => WorkingSet' = WorkingSet]_vars

\* requests the Loader and the Saver have not answered yet
Outstanding == Len(pending) + loading

\* C33: every call runs the caller's callback exactly once: a call either
\* runs it before it returns and leaves no request behind, or returns
\* without running it and leaves exactly one request with the Loader or
\* the Saver, and every answer of the Loader or the Saver settles one
\* request and runs the callback once; this holds on the found and the
\* not-found path and for success and failure alike.
C33_ExactlyOneCompletion ==
    [][IF step'.op \in {"saverDone", "loaderDone"}
       THEN step'.ncb = 1 /\ Outstanding' = Outstanding - 1
       ELSE \/ step'.ncb = 1 /\ Outstanding' = Outstanding
            \/ step'.ncb = 0 /\ Outstanding' = Outstanding + 1
      ]_vars

\* C33 witness: an update that found no record has called back at once
\* with nothing while an open was waiting for its Loader.
C33_Witness ==
    /\ step.op = "update"
    /\ step.ncb = 1
    /\ step.nsave = 0
    /\ res.op = "update"
    /\ res.item = 0
    /\ loading = 1

\* the list as the Saver was given it with the request issued last
LastRequest == pending[Len(pending)].data

\* C34: with an asynchronous Saver every mutating call changes the
\* Working Set in the step of the call, and the Saver is given the list
\* with the change applied; deleteByFilter leaves no record that matches
\* and keeps every other record in order; an answer of the Saver does
\* not change the Working Set, and the reads issued while saves are
\* pending count and list the records of exactly that Working Set.
C34_AtomicMutation ==
    [][/\ step'.nsave = 1 => LastRequest' = WorkingSet'
       /\ step'.op = "deleteByFilter" =>
             WorkingSet' = Those(WorkingSet, LAMBDA r : ~Matches(step'.arg, r))
       /\ (step'.op = "create" /\ step'.nsave = 1) =>
             WorkingSet' = Append(WorkingSet, step'.arg)
       /\ step'.op = "saverDone" => WorkingSet' = WorkingSet
       /\ (pending # <<>> /\ step'.op = "getCountByFilter") =>
             /\ res'.count = {FilteredSize(step'.arg)}
             /\ WorkingSet' = WorkingSet
       /\ (pending # <<>> /\ step'.op = "getListByFilter") =>
             /\ Delivered' = Those(WorkingSet, LAMBDA r : Matches(step'.arg[1], r))
             /\ WorkingSet' = WorkingSet
      ]_vars

\* C34 witness: while the save of a deleteByFilter that removed two
\* records is pending, a count by the same filter has found none.
C34_Witness ==
    /\ step.op = "getCountByFilter"
    /\ res.count = {0}
    /\ Len(pending) = 1
    /\ pending[1].op = "deleteByFilter"
    /\ pending[1].data = <<>>
    /\ Len(store) = 2

\* C35: when saves overlap at the Saver, every answer of the Saver runs
\* the callback of its call once with the Saver's outcome and leaves the
\* other request pending; a create issued while a save is pending adds
\* its record to the Working Set, which then holds both changes; the
\* Working Set is not changed by an answer, and the store takes the list
\* of the request whose write succeeded last, in whatever order the
\* answers come.
C35_LastWriteWins ==
    [][/\ step'.op = "saverDone" =>
             \E i \in DOMAIN pending :
                /\ step'.arg = <<pending[i].op, res'.err>>
                /\ res'.op = pending[i].op
                /\ step'.ncb = 1
                /\ Requests(pending') =
                      [j \in 1..(Len(pending) - 1) |->
                          Requests(pending)[IF j < i THEN j ELSE j + 1]]
                /\ store' = IF res'.err = NoErr THEN pending[i].data ELSE store
                /\ WorkingSet' = WorkingSet
       /\ (step'.op = "create" /\ pending # <<>>) =>
             /\ step'.ncb = 0
             /\ Len(pending') = Len(pending) + 1
             /\ WorkingSet' = Append(WorkingSet, step'.arg)
             /\ LastRequest' = WorkingSet'
      ]_vars

\* C35 witness: two creates were issued without waiting, the Saver
\* answered the second before the first, both calls have completed, and
\* the store holds the first create's list while the Working Set holds
\* both records.
C35_Witness ==
    /\ step.op = "saverDone"
    /\ step.arg = <<"create", NoErr>>
    /\ pending = <<>>
    /\ Len(WorkingSet) = 2
    /\ store = <<WorkingSet[1]>>
    /\ res.item # 0
    /\ objs[res.item] = WorkingSet[1]

\* a create has just told its caller of success
CreateAcknowledged ==
    /\ res.op = "create"
    /\ res.err = NoErr
    /\ res.item # 0
    /\ \/ step.op = "create" /\ step.ncb = 1
       \/ step.op = "saverDone" /\ step.arg = <<"create", NoErr>>

\* C36 (violated when the Loader delivers a list): a record whose create
\* was acknowledged while an open was waiting for its Loader is in the
\* Working Set when that open completes.
C36_CreateSurvivesOpen ==
    [][(CreateAcknowledged /\ loading > 0 /\ step'.op = "loaderDone") =>
          \E i \in 1..Len(WorkingSet') : WorkingSet'[i] = objs[res.item]
      ]_vars

\* C37 (violated): JsonFilePersister.save and load run the callback at
\* most once also when the callback throws while it handles a successful
\* result, and a write or read that succeeded is not reported to that
\* callback as a failure afterwards.
C37_AtMostOnce ==
    [][step'.op \in {"saveThrows", "loadThrows"} =>
          /\ step'.ncb <= 1
          /\ (step'.op = "saveThrows" /\ ~IsNullish(path) /\ file # Locked)
                => res'.err # WriteFailed
          /\ (step'.op = "loadThrows" /\ ~IsNullish(path) /\ IsJsonFile(file))
                => res'.err # ReadFailed
      ]_vars

\* the operations of the persistence that change the Working Set
Mutators == {"create", "set", "update", "updatePartially", "deleteById",
             "deleteByIds", "deleteByFilter"}

\* C38 (violated on the paths that find no record): update,
\* updatePartially, deleteById, deleteByIds and deleteByFilter called
\* without a callback return without throwing, whether a record is found
\* or not, as create and set do.
C38_OptionalCallbacks ==
    [][(~caller.callback /\ step'.op \in Mutators) => res'.op # "thrown"]_vars

\* C39 (violated for ids that are == but not ===): for every id,
\* getOneById finds a record exactly when the index lookup of update,
\* updatePartially, deleteById and set finds one, and both find the same
\* record, the first with that id in the Working Set.
C39_IdsAgree ==
    \A id \in MixedIds :
        LET found == OneById(objs, arrs[items], id)
            index == IndexOfId(objs, arrs[items], id)
        IN  /\ found # 0 <=> index # 0
            /\ index # 0 => found = arrs[items][index]

\* C40: create, set and update leave the record they were given as it
\* was, a null id included, and store and return another object; when
\* the caller changes a field of that record afterwards, the Working Set
\* stays as it is.
C40_InputNotRetained ==
    [][/\ step'.op \in {"create", "set", "update"} =>
             /\ inp' # 0
             /\ objs'[inp'] = step'.arg
             /\ \A i \in 1..Len(arrs'[items']) : arrs'[items'][i] # inp'
             /\ res'.item # inp'
       /\ (step'.op = "write" /\ inp # 0 /\ objs'[inp] # objs[inp]) =>
             WorkingSet' = WorkingSet
      ]_vars

\* C40 witness: a record was created from an input with a null id, the
\* caller has then changed the input's content, and the input still has
\* its null id while the stored record has the generated id and the
\* content it was created with.
C40_Witness ==
    /\ step.op = "write"
    /\ inp # 0
    /\ objs[inp].id = Null
    /\ objs[inp].content = "xyz"
    /\ Len(WorkingSet) = 1
    /\ WorkingSet[1].id = GenIds[1]
    /\ WorkingSet[1].content = "x"

====
